---- MODULE Spec2Model ----
(***************************************************************************)
(* A model of the agp command-line tool: the bootstrap of the .agp         *)
(* knowledge directory as a Git submodule (init), the push/sync of its     *)
(* changes, and the pure helpers they use (commit-message generation,      *)
(* template merge, validation).                                            *)
(*                                                                         *)
(* One CLI invocation is one process: it is started from the project       *)
(* directory, runs one command to its end ("done") and exits.  Code        *)
(* between two awaits or two child-process calls is one step.  Every       *)
(* child process that reaches the network may fail; local Git commands     *)
(* fail when Git itself would refuse them.                                 *)
(***************************************************************************)
EXTENDS Naturals, Sequences, FiniteSets, TLC

VARIABLES
  disk,     \* the .agp directory: [agp |-> exists, wt |-> node -> content, config |-> parsed .config.json]
  nested,   \* the Git repository inside .agp
  parent,   \* the parent project's Git state
  remote,   \* the remote repositories, by URL
  proc,     \* the running process: command, position, working directory, locals
  did,      \* the side effects the running command has issued so far
  entry,    \* the state in which the running command was entered
  pure      \* inputs and outputs of the pure-function specifications

vars == <<disk, nested, parent, remote, proc, did, entry, pure>>

-----------------------------------------------------------------------------
(* Bounds of the model *)

MaxOps == 2          \* CLI invocations in one behaviour
MaxLines == 2        \* status lines handed to generateCommitMessage

(* Program constants *)

maxRetries == 3

-----------------------------------------------------------------------------
(* The knowledge directory's nodes.  Content is abstract: "none" (absent), *)
(* "dir", "tmpl" (as shipped by the template), "gen" (written by the       *)
(* tool), "old" (pre-existing on a remote), "edit" (changed by the user).  *)

Dirs == {"architecture", "patterns", "project", "sessions", "sessions/alice", ".temp-template",
         "config"}

Files == {"instructions.md", ".config.json", ".gitignore",
          "architecture/overview.md", "architecture/feature-domains.md",
          "architecture/project-overview.md", "patterns/overview.md",
          "sessions/alice/index.md", "notes.md", ".temp-template/keep.md",
          "config/cursor.json", "config/chatgpt-instructions.md"}

Nodes == Dirs \cup Files

ParentDir(n) ==
  CASE n \in {"architecture/overview.md", "architecture/feature-domains.md",
              "architecture/project-overview.md"} -> "architecture"
    [] n = "patterns/overview.md" -> "patterns"
    [] n = "sessions/alice/index.md" -> "sessions/alice"
    [] n = "sessions/alice" -> "sessions"
    [] n = ".temp-template/keep.md" -> ".temp-template"
    [] n \in {"config/cursor.json", "config/chatgpt-instructions.md"} -> "config"
    [] OTHER -> ""

TopLevel == {n \in Nodes : ParentDir(n) = ""}

\* the top-level entry a node lives under
TopOf(n) ==
  IF ParentDir(n) = "" THEN n
  ELSE IF ParentDir(ParentDir(n)) = "" THEN ParentDir(n)
  ELSE ParentDir(ParentDir(n))

Under(n, d) == n = d \/ ParentDir(n) = d \/ (ParentDir(n) # "" /\ ParentDir(ParentDir(n)) = d)

IsHidden(n) == n \in {".config.json", ".gitignore", ".temp-template"}

NoNodes == [n \in Nodes |-> "none"]
NoTree == [f \in Files |-> "none"]

\* directories a set of files implies
DirsOf(t) == {d \in Dirs : \E f \in Files : t[f] # "none" /\ Under(f, d)}

\* the working tree a checkout of tree t produces
Checkout(t) == [n \in Nodes |-> IF n \in Files THEN t[n]
                                ELSE IF n \in DirsOf(t) THEN "dir" ELSE "none"]

ensureDir(wt, d) == [n \in Nodes |-> IF Under(d, n) /\ n \in Dirs /\ wt[n] = "none" THEN "dir" ELSE wt[n]]

removeNode(wt, d) == [n \in Nodes |-> IF Under(n, d) THEN "none" ELSE wt[n]]

\* fs.writeFile does not create the parent directory
canWrite(wt, f) == IF ParentDir(f) = "" THEN TRUE ELSE wt[ParentDir(f)] = "dir"

writeFile(wt, f, c) == [wt EXCEPT ![f] = c]

-----------------------------------------------------------------------------
(* Remote URLs and what the remotes hold at the start *)

UrlEmpty == "git@github.com:user/new-agp.git"
UrlUsed == "https://github.com/user/old-agp.git"
Urls == {UrlEmpty, UrlUsed}
\* a path on the local machine: Git accepts it, isValidGitUrl does not
UrlLocal == "/srv/git/agp.git"
\* what can be typed at the prompt, and the repositories that exist
TypedUrls == Urls \cup {UrlLocal}

\* the parts of a URL the patterns of isValidGitUrl look at
urlParts(url) ==
  CASE url = UrlEmpty -> [scheme |-> "git@", sep |-> ":", segments |-> <<"user", "new-agp.git">>]
    [] url = UrlUsed -> [scheme |-> "https://", sep |-> "/", segments |-> <<"user", "old-agp.git">>]
    [] OTHER -> [scheme |-> "", sep |-> "/", segments |-> <<"srv", "git", "agp.git">>]

endsWithGit(segment) == segment \in {"new-agp.git", "old-agp.git", "agp.git"}

isValidGitUrl(url) ==
  LET u == urlParts(url)
      last == u.segments[Len(u.segments)]
  IN IF u.scheme = "git@" /\ u.sep = ":" /\ Len(u.segments) = 2 /\ endsWithGit(last) THEN TRUE
     ELSE IF u.scheme \in {"http://", "https://"} /\ Len(u.segments) = 2 /\ endsWithGit(last) THEN TRUE
     ELSE u.scheme \in {"http://", "https://"} /\ Len(u.segments) = 2

\* a repository an earlier init pushed
RemoteComplete ==
  [f \in Files |->
     CASE f \in {"instructions.md", "architecture/overview.md", "patterns/overview.md",
                 "sessions/alice/index.md", "notes.md"} -> "old"
       [] f \in {".gitignore", "architecture/feature-domains.md",
                 "architecture/project-overview.md"} -> "gen"
       [] OTHER -> "none"]

\* a repository with unrelated content
RemoteNotes ==
  [f \in Files |-> IF f \in {"notes.md", "architecture/overview.md", ".temp-template/keep.md"}
                   THEN "old" ELSE "none"]

\* a repository that brings a .gitignore of its own
RemoteOwnIgnore ==
  [f \in Files |-> IF f \in {"notes.md", ".gitignore"} THEN "old" ELSE "none"]

\* a repository none of whose paths the tool writes
RemoteNotesOnly == [f \in Files |-> IF f = "notes.md" THEN "old" ELSE "none"]

RemoteStarts == {RemoteComplete, RemoteNotes, RemoteOwnIgnore, RemoteNotesOnly}

\* the template archive, after downloadTemplate dropped .github, README.md and LICENSE
DefaultTemplate ==
  [f \in Files |-> IF f \in {"instructions.md", "architecture/overview.md", "patterns/overview.md"}
                   THEN "tmpl" ELSE "none"]

\* a custom template (--template) that ships the instructions file only
BareTemplate == [f \in Files |-> IF f = "instructions.md" THEN "tmpl" ELSE "none"]

Templates == {DefaultTemplate, BareTemplate}

-----------------------------------------------------------------------------
(* Error messages *)

ErrExists == "AGP directory already exists. Use --force to overwrite."
ErrNoGit == "AGP requires a Git repository. Please run \"git init\" first."
ErrMaxAttempts == "Failed to initialize submodule after maximum attempts"
ErrMultiple == "Failed to initialize submodule after multiple attempts"
ErrDownload == "Failed to download template: "
ErrPull == "Failed to pull submodule content: "
ErrFileMissing == "Required file missing: "
ErrDirMissing == "Required directory missing: "
ErrSubmodule == "Git submodule validation failed"
ErrNoAgp == "AGP directory not found. Run \"agp init\" first."
ErrNotRepo == "AGP directory is not a git repository. Please check your setup."
ErrPush == "Failed to push AGP changes: "
ErrSync == "Failed to sync AGP: "
ErrLink == "Failed to link repository: "
ErrUncommitted == "Uncommitted changes in .agp directory. Commit them first or use --force."
ErrSyncNew == "Failed to sync with new repository: "
ErrNotInit == "AGP not initialized. Run \"agp init\" first."
ErrNoConfig == "AGP config not found. Run \"agp init\" to reinitialize."
ErrReadConfig == "Failed to read AGP config. Please run \"agp init\" to reinitialize."
ErrNameRequired == "Name is required"
ErrUnsupported == "Unsupported tool: "
ErrNoInstructions == "AGP instructions.md not found. Run \"agp init\" first."
ErrENOENT == "ENOENT: no such file or directory"
CmdFailed == "Command failed"

-----------------------------------------------------------------------------
(* Initial state *)

NoConfig == [kind |-> "none", user |-> "", current |-> "", repository |-> ""]

NoRepo == [repo |-> FALSE, commits |-> FALSE, head |-> NoTree, index |-> NoTree, origin |-> "none"]

NoDisk == [agp |-> FALSE, wt |-> NoNodes, config |-> NoConfig]

Idle == [op |-> "idle", pc |-> "idle", cwd |-> "parent", result |-> "",
         force |-> FALSE, message |-> "", existingConfig |-> NoConfig,
         existingUrl |-> "", repositoryUrl |-> "", retryCount |-> 0, bodyRuns |-> 0,
         cancels |-> 0, route |-> "", submoduleUrl |-> "", template |-> NoTree, ops |-> 0,
         userName |-> "", answer |-> "", tool |-> ""]

NoPure == [kind |-> "none"]

NoEntry == [disk |-> NoDisk, nested |-> NoRepo, parent |-> [git |-> FALSE], remote |-> <<>>]

\* a parent repository: .git, the .gitmodules entries, the entry of .agp in the
\* index and in HEAD with the nested commit each records, and .git/modules/.agp
FreshParent == [git |-> TRUE, gitmodules |-> <<>>, index |-> "none", indexPtr |-> NoTree,
                head |-> "none", headPtr |-> NoTree, headModules |-> <<>>,
                modulesDir |-> FALSE, origin |-> "none", claudeMd |-> "none"]

\* a clone of a project whose .agp submodule is registered but not populated
ClonedParent == [git |-> TRUE, gitmodules |-> <<[path |-> ".agp", url |-> UrlUsed]>>,
                 index |-> "gitlink", indexPtr |-> RemoteComplete,
                 head |-> "gitlink", headPtr |-> RemoteComplete,
                 headModules |-> <<[path |-> ".agp", url |-> UrlUsed]>>,
                 modulesDir |-> FALSE, origin |-> "none", claudeMd |-> "none"]

EmptyAgpDir == [agp |-> TRUE, wt |-> NoNodes, config |-> NoConfig]

\* the same clone after the user copied a .config.json into the empty directory
ConfigOnlyAgpDir ==
  [agp |-> TRUE, wt |-> writeFile(NoNodes, ".config.json", "gen"),
   config |-> [kind |-> "ok", user |-> "alice", current |-> ".agp/sessions/alice/index.md",
               repository |-> UrlUsed]]

\* a knowledge directory copied into a project that is not a Git repository
CopiedAgpDir ==
  [agp |-> TRUE, wt |-> writeFile(Checkout(DefaultTemplate), ".config.json", "gen"),
   config |-> [kind |-> "ok", user |-> "", current |-> "", repository |-> UrlUsed]]

\* a project whose .config.json is not JSON
BrokenConfigAgpDir == [ConfigOnlyAgpDir EXCEPT !.config = [NoConfig EXCEPT !.kind = "bad"]]

\* a project whose .config.json names a repository by its path on the machine
LocalConfigAgpDir == [ConfigOnlyAgpDir EXCEPT !.config.repository = UrlLocal]

Init ==
  /\ \E start \in {"fresh", "nogit", "nogitAgp", "cloned", "clonedConfig", "localConfig",
                     "brokenConfig"} :
       /\ disk = CASE start = "cloned" -> EmptyAgpDir
                   [] start = "clonedConfig" -> ConfigOnlyAgpDir
                   [] start = "localConfig" -> LocalConfigAgpDir
                   [] start = "brokenConfig" -> BrokenConfigAgpDir
                   [] start = "nogitAgp" -> CopiedAgpDir
                   [] OTHER -> NoDisk
       /\ parent = CASE start = "fresh" -> FreshParent
                     [] start \in {"nogit", "nogitAgp"} -> [FreshParent EXCEPT !.git = FALSE]
                     [] start \in {"localConfig", "brokenConfig"} -> FreshParent
                     [] OTHER -> ClonedParent
       /\ \E r \in RemoteStarts :
            remote = [u \in TypedUrls |-> IF u # UrlUsed THEN [has |-> FALSE, tree |-> NoTree]
                                     ELSE [has |-> TRUE, tree |-> IF start \in {"cloned", "clonedConfig"} THEN RemoteComplete ELSE r]]
  /\ nested = NoRepo
  /\ proc = Idle
  /\ did = {}
  /\ entry = NoEntry
  /\ pure = NoPure

-----------------------------------------------------------------------------
(* validateAgpSetup *)

\* variant: the checklist names version-controlled files only
requiredFilesVersioned == <<"instructions.md", ".gitignore", "architecture/overview.md",
                            "patterns/overview.md", "architecture/feature-domains.md",
                            "architecture/project-overview.md">>

requiredFiles == <<"instructions.md", ".config.json", ".gitignore", "architecture/overview.md",
                   "patterns/overview.md", "architecture/feature-domains.md",
                   "architecture/project-overview.md">>

requiredDirs == <<"sessions", "architecture", "patterns", "project">>

pathExists(wt, n) == wt[n] # "none"

\* variant: the last missing item is reported
lastMissing(items, wt, i) ==
  IF \A j \in i..Len(items) : pathExists(wt, items[j]) THEN ""
  ELSE items[CHOOSE j \in i..Len(items) :
               ~pathExists(wt, items[j]) /\ \A k \in (j + 1)..Len(items) : pathExists(wt, items[k])]

\* the first item of the list that does not exist, "" when all exist
RECURSIVE firstMissing(_, _, _)
firstMissing(items, wt, i) ==
  IF i > Len(items) THEN ""
  ELSE IF ~pathExists(wt, items[i]) THEN items[i]
  ELSE firstMissing(items, wt, i + 1)

HasModuleEntry(p) == \E i \in 1..Len(p.gitmodules) : p.gitmodules[i].path = ".agp"

\* what `git submodule status .agp` does in the parent: "fail" (non-zero exit),
\* "empty" (no output: the path is tracked, but not as a submodule) or "line"
submoduleStatus(p) ==
  IF ~p.git \/ p.index = "none" THEN "fail"
  ELSE IF p.index = "files" THEN "empty"
  ELSE IF ~HasModuleEntry(p) THEN "fail"
  ELSE "line"

\* the message validateAgpSetup throws, "" when it returns
validateAgpSetup(wt, p) ==
  IF firstMissing(requiredFiles, wt, 1) # ""
    THEN ErrFileMissing \o firstMissing(requiredFiles, wt, 1)
  ELSE IF firstMissing(requiredDirs, wt, 1) # ""
    THEN ErrDirMissing \o firstMissing(requiredDirs, wt, 1)
  ELSE IF submoduleStatus(p) # "line" THEN ErrSubmodule
  ELSE ""

-----------------------------------------------------------------------------
(* generateCommitMessage.  A status line is a sequence of tokens (the status *)
(* code, directory names, "/" and the file name), so that String.includes    *)
(* is a search for a contiguous run of tokens.                               *)

includes(line, pat) ==
  \E i \in 1..Len(line) : i + Len(pat) - 1 <= Len(line) /\ SubSeq(line, i, i + Len(pat) - 1) = pat

anyIncludes(lines, pat) == \E i \in 1..Len(lines) : includes(lines[i], pat)

RECURSIVE join(_, _)
join(parts, sep) ==
  IF parts = <<>> THEN ""
  ELSE IF Len(parts) = 1 THEN parts[1]
  ELSE parts[1] \o sep \o join(Tail(parts), sep)

bucketParts(changedFiles) ==
     (IF anyIncludes(changedFiles, <<"sessions", "/">>) THEN <<"session progress">> ELSE <<>>)
  \o (IF anyIncludes(changedFiles, <<"project", "/">>) THEN <<"project knowledge">> ELSE <<>>)
  \o (IF anyIncludes(changedFiles, <<"patterns", "/">>) THEN <<"patterns">> ELSE <<>>)
  \o (IF anyIncludes(changedFiles, <<"architecture", "/">>) THEN <<"architecture">> ELSE <<>>)

generateCommitMessage(changedFiles) ==
  IF bucketParts(changedFiles) = <<>> THEN "docs: update AGP knowledge"
  ELSE "docs: update " \o join(bucketParts(changedFiles), ", ")

\* options.message || generateCommitMessage(changedFiles)
commitMessage(message, changedFiles) ==
  IF message # "" THEN message ELSE generateCommitMessage(changedFiles)

-----------------------------------------------------------------------------
(* mergeTemplateWithExisting: the template is downloaded into the target's  *)
(* own .temp-template entry, its top-level entries are copied, and the       *)
(* entry is removed again.                                                   *)

tempDir == ".temp-template"

templateEntries(tmpl) == {TopOf(f) : f \in {g \in Files : tmpl[g] # "none"}}

\* fs.copy of one top-level entry of the template into the target
copyEntry(wt, tmpl, e) == [n \in Nodes |-> IF Under(n, e) THEN Checkout(tmpl)[n] ELSE wt[n]]

\* one round of the for loop
mergeEntry(wt, tmpl, e) ==
  IF ~pathExists(wt, e) THEN copyEntry(wt, tmpl, e)
  ELSE IF e = "instructions.md" THEN copyEntry(wt, tmpl, e)
  ELSE wt

RECURSIVE mergeLoop(_, _, _)
mergeLoop(wt, tmpl, todo) ==
  IF todo = {} THEN wt
  ELSE LET e == CHOOSE x \in todo : TRUE
       IN mergeLoop(mergeEntry(wt, tmpl, e), tmpl, todo \ {e})

\* the target after a merge whose download succeeded
mergeTemplateWithExisting(wt, tmpl) ==
  removeNode(mergeLoop(removeNode(wt, tempDir), tmpl, templateEntries(tmpl)), tempDir)

\* the target after a merge whose download failed
mergeTemplateFailed(wt) == removeNode(wt, tempDir)

-----------------------------------------------------------------------------
(* Git, as far as the tool depends on it *)

\* .gitignore as written by setupAdditionalStructure keeps .config.json out
ignored(wt, f) == wt[".gitignore"] = "gen" /\ f = ".config.json"

\* the index after `git add .`
gitAddAll(index, wt) ==
  [f \in Files |-> IF ignored(wt, f) /\ index[f] = "none" THEN "none" ELSE wt[f]]

\* the files `git status --porcelain` lists
statusFiles(n, wt) == {f \in Files : gitAddAll(n.index, wt)[f] # n.head[f]}

\* `git commit` refuses when the index equals HEAD
canCommit(n) == n.repo /\ n.index # n.head

\* two unrelated histories merge when no path is in both with different content
canMerge(a, b) == {f \in Files : a[f] # "none" /\ b[f] # "none" /\ a[f] # b[f]} = {}

mergeTrees(a, b) == [f \in Files |-> IF a[f] # "none" THEN a[f] ELSE b[f]]

\* .gitmodules after `git submodule add url .agp`: the entry of the path is set
setModule(gm, url) ==
  IF \E i \in 1..Len(gm) : gm[i].path = ".agp"
  THEN [i \in 1..Len(gm) |-> IF gm[i].path = ".agp" THEN [path |-> ".agp", url |-> url] ELSE gm[i]]
  ELSE Append(gm, [path |-> ".agp", url |-> url])

moduleEntries(p) == {i \in 1..Len(p.gitmodules) : p.gitmodules[i].path = ".agp"}

\* `git commit` in the parent records what is staged: .agp and .gitmodules
parentCommit(p) == [p EXCEPT !.head = p.index, !.headPtr = p.indexPtr, !.headModules = p.gitmodules]

parentCanCommit(p) ==
  p.git /\ (p.index # p.head \/ p.indexPtr # p.headPtr \/ p.gitmodules # p.headModules)

\* `git status --porcelain` in the parent mentions .agp
parentStatusMentionsAgp(p) == p.index # p.head \/ p.indexPtr # p.headPtr


-----------------------------------------------------------------------------
(* Process steps shared by the commands *)

Snapshot == [disk |-> disk, nested |-> nested, parent |-> parent, remote |-> remote]

\* a command is invoked in the project directory
Invoke(op) == [Idle EXCEPT !.op = op, !.ops = proc.ops + 1]

CanInvoke == proc.op = "idle" /\ proc.ops < MaxOps

At(op, pc) == proc.op = op /\ proc.pc = pc

\* variant: whatever the file holds is taken for a config
canParseAny(config) == TRUE

\* readFile and JSON.parse of .config.json go through
canParse(config) == config.kind = "ok"

\* the command handler's promise settles and the process exits
Exit ==
  /\ proc.pc \in {"done", "interrupted"}
  /\ proc' = [Idle EXCEPT !.ops = proc.ops]
  /\ did' = {}
  /\ entry' = NoEntry
  /\ UNCHANGED <<disk, nested, parent, remote, pure>>

-----------------------------------------------------------------------------
(* initializeAgpDirectory *)

\* variant: the filter keeps the hidden names instead of dropping them
nonHiddenFilesInverted(wt) == {n \in TopLevel : wt[n] # "none" /\ IsHidden(n)}

\* variant: no filter, every entry counts
nonHiddenFilesUnfiltered(wt) == {n \in TopLevel : wt[n] # "none"}

\* readdir(.agp) without the names that start with "."; .git is one of those
nonHiddenFiles(wt) == {n \in TopLevel : wt[n] # "none" /\ ~IsHidden(n)}

\* lines 23-57: the checks before anything is touched
InitEnter(force, tmpl) ==
  /\ CanInvoke
  /\ entry' = Snapshot
  /\ did' = {}
  /\ LET p0 == [Invoke("init") EXCEPT !.force = force, !.template = tmpl] IN
       IF disk.agp /\ ~force
       THEN IF nonHiddenFiles(disk.wt) = {}
            THEN proc' = [p0 EXCEPT !.pc = "pullInit"]
            ELSE proc' = [p0 EXCEPT !.pc = "done", !.result = ErrExists]
       ELSE IF ~parent.git
       THEN proc' = [p0 EXCEPT !.pc = "done", !.result = ErrNoGit]
       ELSE proc' = [p0 EXCEPT !.pc = "setup",
                                !.existingConfig = IF force /\ canParse(disk.config)
                                                   THEN disk.config ELSE NoConfig]
  /\ UNCHANGED <<disk, nested, parent, remote, pure>>

\* pullSubmoduleContent: git submodule init
PullSubmoduleInit ==
  /\ At("init", "pullInit")
  /\ did' = did \cup {"p:submodule init"}
  /\ IF parent.git
     THEN proc' = [proc EXCEPT !.pc = "pullUpdate"]
     ELSE proc' = [proc EXCEPT !.pc = "done", !.result = ErrPull \o CmdFailed]
  /\ UNCHANGED <<disk, nested, parent, remote, entry, pure>>

registeredUrl(p) == p.gitmodules[CHOOSE i \in moduleEntries(p) : TRUE].url

\* pullSubmoduleContent: git submodule update --remote
PullSubmoduleUpdate ==
  /\ At("init", "pullUpdate")
  /\ did' = did \cup {"p:submodule update"}
  /\ \/ \* the command fails (network, or the clone refuses a non-empty directory)
        /\ proc' = [proc EXCEPT !.pc = "done", !.result = ErrPull \o CmdFailed]
        /\ UNCHANGED <<disk, nested, parent>>
     \/ \* no submodule is registered: nothing to update
        /\ ~(parent.index = "gitlink" /\ HasModuleEntry(parent))
        /\ proc' = [proc EXCEPT !.pc = "pullValidate"]
        /\ UNCHANGED <<disk, nested, parent>>
     \/ \* the submodule is cloned into the empty directory
        /\ parent.index = "gitlink" /\ HasModuleEntry(parent)
        /\ ~nested.repo /\ disk.wt = NoNodes
        /\ remote[registeredUrl(parent)].has
        /\ LET t == remote[registeredUrl(parent)].tree IN
             /\ disk' = [disk EXCEPT !.wt = Checkout(t)]
             /\ nested' = [repo |-> TRUE, commits |-> TRUE, head |-> t, index |-> t,
                           origin |-> registeredUrl(parent)]
        /\ parent' = [parent EXCEPT !.modulesDir = TRUE]
        /\ proc' = [proc EXCEPT !.pc = "pullValidate"]
  /\ UNCHANGED <<remote, entry, pure>>

\* pullSubmoduleContent: validateAgpSetup, any error wrapped
PullValidate ==
  /\ At("init", "pullValidate")
  /\ did' = did \cup {"p:submodule status"}
  /\ proc' = [proc EXCEPT !.pc = "done",
                !.result = IF validateAgpSetup(disk.wt, parent) = "" THEN "ok"
                           ELSE ErrPull \o validateAgpSetup(disk.wt, parent)]
  /\ UNCHANGED <<disk, nested, parent, remote, entry, pure>>

\* setupAdditionalStructure: the sessions directory and .gitignore
setupAdditionalStructure(wt) == writeFile(ensureDir(wt, "sessions"), ".gitignore", "gen")

\* analyzeProject: the two architecture files it always writes
analyzeProject(wt) ==
  writeFile(writeFile(wt, "architecture/feature-domains.md", "gen"),
            "architecture/project-overview.md", "gen")

\* lines 63-83: remove, download the template, generate the rest
InitSetup ==
  /\ At("init", "setup")
  /\ nested' = NoRepo
  /\ \/ \* the download fails after the target directory was created
        /\ disk' = EmptyAgpDir
        /\ did' = did \cup {"download"} \cup (IF disk.agp THEN {"rm .agp"} ELSE {})
        /\ proc' = [proc EXCEPT !.pc = "done", !.result = ErrDownload \o CmdFailed]
     \/ /\ did' = did \cup {"download", "write"} \cup (IF disk.agp THEN {"rm .agp"} ELSE {})
        /\ LET wt1 == ensureDir(Checkout(proc.template), "project") IN
             IF canWrite(wt1, "architecture/feature-domains.md")
             THEN /\ disk' = [agp |-> TRUE, wt |-> setupAdditionalStructure(analyzeProject(wt1)),
                              config |-> NoConfig]
                  /\ proc' = [proc EXCEPT !.pc = "link"]
             ELSE /\ disk' = [agp |-> TRUE, wt |-> wt1, config |-> NoConfig]
                  /\ proc' = [proc EXCEPT !.pc = "done", !.result = ErrENOENT]
  /\ UNCHANGED <<parent, remote, entry, pure>>


-----------------------------------------------------------------------------
(* initializeSubmodule *)

\* variant: the sessions directory is made as well
setupAgpDirectoryAgainWithSessions ==
  [agp |-> TRUE, config |-> NoConfig,
   wt |-> ensureDir(ensureDir(ensureDir(ensureDir(NoNodes, "architecture"), "patterns"), "project"),
                    "sessions")]

\* variant: the directory is recreated without the three directories
setupAgpDirectoryAgainEmpty == EmptyAgpDir

\* setupAgpDirectoryAgain: the directory with three empty directories
setupAgpDirectoryAgain ==
  [agp |-> TRUE, config |-> NoConfig,
   wt |-> ensureDir(ensureDir(ensureDir(NoNodes, "architecture"), "patterns"), "project")]

\* the steps of initializeSubmodule that run with the SIGINT handler registered
HandlerPcs == {"loop", "promptUrl", "chdir", "gitInit", "gitAdd", "gitCommit", "remoteAdd", "push",
               "promptAction", "cancel", "owPull", "owPush", "owForce", "mergeRemove",
               "mergeClone", "mergeTemplate", "mergeAdd", "mergeCommit", "mergePush",
               "rmCached", "subAdd", "catch", "catchClean", "finalize"}

\* variant: cleanup leaves the working directory where it is
cleanupCwdStays(cwd) == cwd

\* lines 108-114: cleanup goes back to originalDirectory
cleanupCwd(cwd) == "parent"

\* lines 116-120: SIGINT runs cleanup and exits; before line 116 the process just dies.
\* A behaviour is followed up to its first interrupted invocation.
Sigint ==
  /\ proc.op = "init"
  /\ proc.pc \in HandlerPcs \cup {"link"}
  /\ proc' = [Idle EXCEPT !.op = "init", !.pc = "interrupted", !.result = "SIGINT", !.ops = MaxOps, !.force = proc.force,
                          !.cwd = IF proc.pc \in HandlerPcs THEN cleanupCwd(proc.cwd) ELSE proc.cwd]
  /\ did' = {"sigint in " \o proc.cwd}
  /\ UNCHANGED <<disk, nested, parent, remote, entry, pure>>

\* lines 102-138
LinkEnter ==
  /\ At("init", "link")
  /\ proc' = [proc EXCEPT !.pc = "loop", !.existingUrl = proc.existingConfig.repository,
                          !.repositoryUrl = proc.existingConfig.repository, !.retryCount = 0]
  /\ UNCHANGED <<disk, nested, parent, remote, did, entry, pure>>

\* line 140, and the choice of line 143
LoopHead ==
  /\ At("init", "loop")
  /\ IF proc.retryCount < maxRetries
     THEN proc' = [proc EXCEPT !.bodyRuns = proc.bodyRuns + 1,
                     !.pc = IF proc.repositoryUrl = "" THEN "promptUrl" ELSE "chdir"]
     ELSE proc' = [proc EXCEPT !.pc = "done", !.result = ErrMultiple]
  /\ UNCHANGED <<disk, nested, parent, remote, did, entry, pure>>

\* lines 144-161: the prompt accepts only URLs isValidGitUrl accepts
PromptUrl(u) ==
  /\ At("init", "promptUrl")
  /\ isValidGitUrl(u)
  /\ proc' = [proc EXCEPT !.pc = "chdir", !.repositoryUrl = u]
  /\ did' = did \cup {"prompt url"}
  /\ UNCHANGED <<disk, nested, parent, remote, entry, pure>>

\* line 166
EnterAgp ==
  /\ At("init", "chdir")
  /\ IF disk.agp THEN proc' = [proc EXCEPT !.pc = "gitInit", !.cwd = "agp"]
                 ELSE proc' = [proc EXCEPT !.pc = "catch"]
  /\ UNCHANGED <<disk, nested, parent, remote, did, entry, pure>>

\* line 167
GitInit ==
  /\ At("init", "gitInit")
  /\ did' = did \cup {"n:init"}
  /\ \/ /\ nested' = [nested EXCEPT !.repo = TRUE]
        /\ proc' = [proc EXCEPT !.pc = "gitAdd"]
     \/ /\ proc' = [proc EXCEPT !.pc = "catch"]
        /\ UNCHANGED nested
  /\ UNCHANGED <<disk, parent, remote, entry, pure>>

\* line 168
GitAdd ==
  /\ At("init", "gitAdd")
  /\ did' = did \cup {"n:add"}
  /\ nested' = [nested EXCEPT !.index = gitAddAll(nested.index, disk.wt)]
  /\ proc' = [proc EXCEPT !.pc = "gitCommit"]
  /\ UNCHANGED <<disk, parent, remote, entry, pure>>

\* line 169
GitCommit ==
  /\ At("init", "gitCommit")
  /\ did' = did \cup {"n:commit"}
  /\ \/ /\ canCommit(nested)
        /\ nested' = [nested EXCEPT !.head = nested.index, !.commits = TRUE]
        /\ proc' = [proc EXCEPT !.pc = "remoteAdd"]
     \/ /\ proc' = [proc EXCEPT !.pc = "catch"]
        /\ UNCHANGED nested
  /\ UNCHANGED <<disk, parent, remote, entry, pure>>

\* line 174
GitRemoteAdd ==
  /\ At("init", "remoteAdd")
  /\ did' = did \cup {"n:remote add"}
  /\ IF nested.origin = "none"
     THEN /\ nested' = [nested EXCEPT !.origin = proc.repositoryUrl]
          /\ proc' = [proc EXCEPT !.pc = "push"]
     ELSE /\ proc' = [proc EXCEPT !.pc = "catch"]
          /\ UNCHANGED nested
  /\ UNCHANGED <<disk, parent, remote, entry, pure>>

\* variant: the prompt is shown from inside .agp
pushFailedCwdStays(cwd) == cwd

\* line 182: back to the original directory before anything is asked
pushFailedCwd(cwd) == "parent"

\* lines 177-184: a push to a remote with history of its own is rejected
GitPush ==
  /\ At("init", "push")
  /\ did' = did \cup {"n:push"}
  /\ \/ /\ ~remote[nested.origin].has
        /\ remote' = [remote EXCEPT ![nested.origin] = [has |-> TRUE, tree |-> nested.head]]
        /\ proc' = [proc EXCEPT !.pc = "rmCached", !.route = "direct"]
     \/ /\ proc' = [proc EXCEPT !.pc = "promptAction", !.cwd = pushFailedCwd(proc.cwd)]
        /\ UNCHANGED remote
  /\ UNCHANGED <<disk, nested, parent, entry, pure>>

\* lines 186-199, 205-207, 217
PromptAction(a) ==
  /\ At("init", "promptAction")
  /\ did' = did \cup {"prompt action"}
  /\ proc' = CASE a = "cancel" -> [proc EXCEPT !.pc = "cancel", !.route = a]
               [] a = "overwrite" -> [proc EXCEPT !.pc = "owPull", !.route = a, !.cwd = "agp"]
               [] OTHER -> [proc EXCEPT !.pc = "mergeRemove", !.route = a]
  /\ UNCHANGED <<disk, nested, parent, remote, entry, pure>>

\* variant: a cancelled attempt uses up one retry
retryCountAfterCancelCounted(retryCount) == retryCount + 1

\* lines 199-204: `continue` leaves retryCount as it is
retryCountAfterCancel(retryCount) == retryCount

\* lines 200-204: the attempt is dropped without being counted
Cancel ==
  /\ At("init", "cancel")
  /\ did' = did \cup {"rm .agp"}
  /\ disk' = setupAgpDirectoryAgain
  /\ nested' = NoRepo
  /\ proc' = [proc EXCEPT !.pc = "loop", !.repositoryUrl = "", !.cancels = proc.cancels + 1,
                          !.retryCount = retryCountAfterCancel(proc.retryCount)]
  /\ UNCHANGED <<parent, remote, entry, pure>>

\* variant: the force push follows the pull whatever its outcome
afterPullAlwaysForce(pulled) == "owForce"

\* lines 210-216: the normal push follows a pull that worked, the force push one that threw
afterPull(pulled) == IF pulled THEN "owPush" ELSE "owForce"

\* line 211
OverwritePull ==
  /\ At("init", "owPull")
  /\ did' = did \cup {"n:pull"}
  /\ \/ /\ remote[nested.origin].has /\ canMerge(nested.head, remote[nested.origin].tree)
        /\ LET m == mergeTrees(nested.head, remote[nested.origin].tree) IN
             /\ nested' = [nested EXCEPT !.head = m, !.index = m]
             /\ disk' = [disk EXCEPT !.wt = [n \in Nodes |-> IF Checkout(m)[n] # "none"
                                                             THEN Checkout(m)[n] ELSE disk.wt[n]]]
        /\ proc' = [proc EXCEPT !.pc = afterPull(TRUE)]
     \/ /\ proc' = [proc EXCEPT !.pc = afterPull(FALSE)]
        /\ UNCHANGED <<disk, nested>>
  /\ UNCHANGED <<parent, remote, entry, pure>>

\* line 212
OverwritePush ==
  /\ At("init", "owPush")
  /\ did' = did \cup {"n:push"}
  /\ \/ /\ remote' = [remote EXCEPT ![nested.origin] = [has |-> TRUE, tree |-> nested.head]]
        /\ proc' = [proc EXCEPT !.pc = "rmCached"]
     \/ /\ proc' = [proc EXCEPT !.pc = "owForce"]
        /\ UNCHANGED remote
  /\ UNCHANGED <<disk, nested, parent, entry, pure>>

\* line 215
OverwriteForce ==
  /\ At("init", "owForce")
  /\ did' = did \cup {"n:push --force"}
  /\ \/ /\ remote' = [remote EXCEPT ![nested.origin] = [has |-> TRUE, tree |-> nested.head]]
        /\ proc' = [proc EXCEPT !.pc = "rmCached"]
     \/ /\ proc' = [proc EXCEPT !.pc = "catch"]
        /\ UNCHANGED remote
  /\ UNCHANGED <<disk, nested, parent, entry, pure>>

\* line 219
MergeRemove ==
  /\ At("init", "mergeRemove")
  /\ did' = did \cup {"rm .agp"}
  /\ disk' = NoDisk
  /\ nested' = NoRepo
  /\ proc' = [proc EXCEPT !.pc = "mergeClone"]
  /\ UNCHANGED <<parent, remote, entry, pure>>

\* `git submodule add url .agp` in the parent: clones when the path is absent,
\* registers the repository at the path when there is one
canSubmoduleAdd(p, d, n, r, url) ==
  /\ p.git /\ p.index = "none"
  /\ IF d.agp THEN n.repo /\ n.commits
     ELSE r[url].has /\ ~p.modulesDir

submoduleAdd(p, ptr, url) ==
  [p EXCEPT !.gitmodules = setModule(p.gitmodules, url), !.index = "gitlink", !.indexPtr = ptr]

\* line 220
MergeClone ==
  /\ At("init", "mergeClone")
  /\ did' = did \cup {"p:submodule add"}
  /\ \/ /\ canSubmoduleAdd(parent, disk, nested, remote, proc.repositoryUrl)
        /\ LET t == remote[proc.repositoryUrl].tree IN
             /\ disk' = [agp |-> TRUE, wt |-> Checkout(t), config |-> NoConfig]
             /\ nested' = [repo |-> TRUE, commits |-> TRUE, head |-> t, index |-> t,
                           origin |-> proc.repositoryUrl]
             /\ parent' = [submoduleAdd(parent, t, proc.repositoryUrl) EXCEPT !.modulesDir = TRUE]
        /\ proc' = [proc EXCEPT !.pc = "mergeTemplate"]
     \/ /\ proc' = [proc EXCEPT !.pc = "catch"]
        /\ UNCHANGED <<disk, nested, parent>>
  /\ UNCHANGED <<remote, entry, pure>>

\* line 223
MergeTemplate ==
  /\ At("init", "mergeTemplate")
  /\ \/ /\ did' = did \cup {"download", "write"}
        /\ disk' = [disk EXCEPT !.wt = mergeTemplateWithExisting(disk.wt, proc.template)]
        /\ proc' = [proc EXCEPT !.pc = "mergeAdd"]
     \/ /\ did' = did \cup {"download"}
        /\ disk' = [disk EXCEPT !.wt = mergeTemplateFailed(disk.wt)]
        /\ proc' = [proc EXCEPT !.pc = "catch"]
  /\ UNCHANGED <<nested, parent, remote, entry, pure>>

\* lines 226-227
MergeAdd ==
  /\ At("init", "mergeAdd")
  /\ did' = did \cup {"n:add"}
  /\ nested' = [nested EXCEPT !.index = gitAddAll(nested.index, disk.wt)]
  /\ proc' = [proc EXCEPT !.pc = "mergeCommit", !.cwd = "agp"]
  /\ UNCHANGED <<disk, parent, remote, entry, pure>>

\* line 229: a failing commit is taken for "nothing to commit"
MergeCommit ==
  /\ At("init", "mergeCommit")
  /\ did' = did \cup {"n:commit"}
  /\ \/ /\ canCommit(nested)
        /\ nested' = [nested EXCEPT !.head = nested.index]
        /\ proc' = [proc EXCEPT !.pc = "mergePush"]
     \/ /\ proc' = [proc EXCEPT !.pc = "rmCached"]
        /\ UNCHANGED nested
  /\ UNCHANGED <<disk, parent, remote, entry, pure>>

\* lines 230-233: a failing push is ignored as well
MergePush ==
  /\ At("init", "mergePush")
  /\ did' = did \cup {"n:push"}
  /\ \/ remote' = [remote EXCEPT ![nested.origin] = [has |-> TRUE, tree |-> nested.head]]
     \/ UNCHANGED remote
  /\ proc' = [proc EXCEPT !.pc = "rmCached"]
  /\ UNCHANGED <<disk, nested, parent, entry, pure>>

\* lines 236-247: back in the parent, `git rm -rf --cached .agp`, errors ignored
RmCached ==
  /\ At("init", "rmCached")
  /\ did' = did \cup {"p:rm --cached"}
  /\ parent' = [parent EXCEPT !.index = "none", !.indexPtr = NoTree]
  /\ proc' = [proc EXCEPT !.pc = "subAdd", !.cwd = "parent"]
  /\ UNCHANGED <<disk, nested, remote, entry, pure>>

\* lines 250-253
SubmoduleAdd ==
  /\ At("init", "subAdd")
  /\ did' = did \cup {"p:submodule add"}
  /\ \/ /\ canSubmoduleAdd(parent, disk, nested, remote, proc.repositoryUrl)
        /\ parent' = submoduleAdd(parent, nested.head, proc.repositoryUrl)
        /\ proc' = [proc EXCEPT !.pc = "finalize", !.submoduleUrl = proc.repositoryUrl]
     \/ /\ proc' = [proc EXCEPT !.pc = "catch"]
        /\ UNCHANGED parent
  /\ UNCHANGED <<disk, nested, remote, entry, pure>>

\* variant: the catch block does not change directory
catchCwdStays(cwd) == cwd

\* line 255
catchCwd(cwd) == "parent"

\* variant: the test after retryCount++ is off by one
retryAllowedLate(retryCount) == retryCount <= maxRetries

\* line 272, after retryCount++
retryAllowed(retryCount) == retryCount < maxRetries

\* variant: the URL of the failed attempt is tried again
urlForRetryKept(repositoryUrl) == repositoryUrl

\* lines 272-274: the URL is reset for the retry
urlForRetry(repositoryUrl) == ""

\* line 255: the first statement of the catch block
CatchChdir ==
  /\ At("init", "catch")
  /\ proc' = [proc EXCEPT !.cwd = catchCwd(proc.cwd), !.pc = "catchClean"]
  /\ UNCHANGED <<disk, nested, parent, remote, did, entry, pure>>

\* lines 257-283
Catch ==
  /\ At("init", "catchClean")
  /\ IF disk.agp
     THEN /\ disk' = setupAgpDirectoryAgain
          /\ nested' = NoRepo
          /\ did' = did \cup {"rm .agp"}
     ELSE UNCHANGED <<disk, nested, did>>
  /\ IF retryAllowed(proc.retryCount + 1)
     THEN proc' = [proc EXCEPT !.retryCount = proc.retryCount + 1,
                               !.repositoryUrl = urlForRetry(proc.repositoryUrl), !.pc = "loop"]
     ELSE proc' = [proc EXCEPT !.retryCount = proc.retryCount + 1,
                               !.pc = "done", !.result = ErrMaxAttempts]
  /\ UNCHANGED <<parent, remote, entry, pure>>

\* variant: the session section starts empty
createConfigFileFresh(existingConfig, submoduleUrl) ==
  [kind |-> "ok", user |-> "", current |-> "", repository |-> submoduleUrl]

\* variant: the repository of the old config is kept
createConfigFileKeepsUrl(existingConfig, submoduleUrl) ==
  [kind |-> "ok", user |-> existingConfig.user, current |-> existingConfig.current,
   repository |-> existingConfig.repository]

\* createConfigFile: the session section is taken over from the old config
createConfigFile(existingConfig, submoduleUrl) ==
  [kind |-> "ok", user |-> existingConfig.user, current |-> existingConfig.current,
   repository |-> submoduleUrl]

\* lines 93-99
Finalize ==
  /\ At("init", "finalize")
  /\ did' = did \cup {"write", "p:submodule status"}
  /\ IF disk.agp
     THEN /\ disk' = [disk EXCEPT !.wt = writeFile(disk.wt, ".config.json", "gen"),
                                  !.config = createConfigFile(proc.existingConfig, proc.submoduleUrl)]
          /\ proc' = [proc EXCEPT !.pc = "done",
                        !.result = IF validateAgpSetup(writeFile(disk.wt, ".config.json", "gen"), parent) = ""
                                   THEN "ok"
                                   ELSE validateAgpSetup(writeFile(disk.wt, ".config.json", "gen"), parent)]
     ELSE /\ proc' = [proc EXCEPT !.pc = "done", !.result = ErrENOENT]
          /\ UNCHANGED disk
  /\ UNCHANGED <<nested, parent, remote, entry, pure>>


-----------------------------------------------------------------------------
(* pushAgpChanges and syncAgpDirectory: the same steps, with their own       *)
(* messages                                                                  *)

fileOrder == <<".config.json", ".gitignore", ".temp-template/keep.md", "architecture/feature-domains.md",
               "config/chatgpt-instructions.md", "config/cursor.json",
               "architecture/overview.md", "architecture/project-overview.md",
               "instructions.md", "notes.md", "patterns/overview.md", "sessions/alice/index.md">>

pathTokens(f) ==
  CASE f = "architecture/feature-domains.md" -> <<"architecture", "/", "feature-domains.md">>
    [] f = "architecture/overview.md" -> <<"architecture", "/", "overview.md">>
    [] f = "architecture/project-overview.md" -> <<"architecture", "/", "project-overview.md">>
    [] f = "patterns/overview.md" -> <<"patterns", "/", "overview.md">>
    [] f = "sessions/alice/index.md" -> <<"sessions", "/", "alice", "/", "index.md">>
    [] f = ".temp-template/keep.md" -> <<".temp-template", "/", "keep.md">>
    [] f = "config/cursor.json" -> <<"config", "/", "cursor.json">>
    [] f = "config/chatgpt-instructions.md" -> <<"config", "/", "chatgpt-instructions.md">>
    [] OTHER -> <<f>>

\* status.trim().split('\n'): one line per changed file, status code first
RECURSIVE statusLines(_, _)
statusLines(changed, i) ==
  IF i > Len(fileOrder) THEN <<>>
  ELSE (IF fileOrder[i] \in changed THEN << <<"M", " ">> \o pathTokens(fileOrder[i]) >> ELSE <<>>)
       \o statusLines(changed, i + 1)

errPrefix(op) == IF op = "push" THEN ErrPush ELSE IF op = "sync" THEN ErrSync ELSE ErrLink

\* variant: no finally block
finallyCwdStays(cwd) == cwd

\* the finally block
finallyCwd(cwd) == "parent"

\* an exception inside the try block: wrapped, and the finally block runs
Thrown(cause) == [proc EXCEPT !.pc = "done", !.cwd = finallyCwd(proc.cwd),
                              !.result = errPrefix(proc.op) \o cause]

Running(pc) == proc.op \in {"push", "sync"} /\ proc.pc = pc

\* the existence checks and the chdir into .agp
\* variant: only the directory is looked for
pushPreconditionDirOnly(hasAgp, hasAgpGit) == IF ~hasAgp THEN ErrNoAgp ELSE ""

\* lines 132-141: the two checks before the try block, "" when both pass
pushPrecondition(hasAgp, hasAgpGit) ==
  IF ~hasAgp THEN ErrNoAgp ELSE IF ~hasAgpGit THEN ErrNotRepo ELSE ""

PushEnter(op, message) ==
  /\ CanInvoke
  /\ entry' = Snapshot
  /\ did' = {}
  /\ LET p0 == [Invoke(op) EXCEPT !.message = message] IN
       IF pushPrecondition(disk.agp, nested.repo) # ""
       THEN proc' = [p0 EXCEPT !.pc = "done", !.result = pushPrecondition(disk.agp, nested.repo)]
       ELSE proc' = [p0 EXCEPT !.pc = "status", !.cwd = "agp"]
  /\ UNCHANGED <<disk, nested, parent, remote, pure>>

\* variant: no early return
afterStatusGoesOn(changed) == "add"

\* lines 149-152: the early return on an empty status
afterStatus(changed) == IF changed = {} THEN "done" ELSE "add"

\* git status --porcelain, the early return, the commit message
NestedStatus ==
  /\ Running("status")
  /\ did' = did \cup {"n:status"}
  /\ IF afterStatus(statusFiles(nested, disk.wt)) = "done"
     THEN proc' = [proc EXCEPT !.pc = "done", !.cwd = finallyCwd(proc.cwd), !.result = "ok",
                               !.route = "noop"]
     ELSE proc' = [proc EXCEPT !.pc = "add",
                     !.message = IF proc.op = "push"
                                 THEN commitMessage(proc.message, statusLines(statusFiles(nested, disk.wt), 1))
                                 ELSE proc.message]
  /\ UNCHANGED <<disk, nested, parent, remote, entry, pure>>

\* git add .
NestedAdd ==
  /\ Running("add")
  /\ did' = did \cup {"n:add"}
  /\ nested' = [nested EXCEPT !.index = gitAddAll(nested.index, disk.wt)]
  /\ proc' = [proc EXCEPT !.pc = "commit"]
  /\ UNCHANGED <<disk, parent, remote, entry, pure>>

\* git commit -m message
NestedCommit ==
  /\ Running("commit")
  /\ did' = did \cup {"n:commit"}
  /\ \/ /\ canCommit(nested)
        /\ nested' = [nested EXCEPT !.head = nested.index, !.commits = TRUE]
        /\ proc' = [proc EXCEPT !.pc = "push"]
     \/ /\ proc' = Thrown(CmdFailed)
        /\ UNCHANGED nested
  /\ UNCHANGED <<disk, parent, remote, entry, pure>>

\* variant: a failing push is ignored
NestedPushIgnoresFailure ==
  /\ Running("push")
  /\ did' = did \cup {"n:push"}
  /\ \/ /\ nested.origin # "none"
        /\ remote' = [remote EXCEPT ![nested.origin] = [has |-> TRUE, tree |-> nested.head]]
        /\ proc' = [proc EXCEPT !.pc = "parentAdd"]
     \/ /\ proc' = [proc EXCEPT !.pc = "parentAdd"]
        /\ UNCHANGED remote
  /\ UNCHANGED <<disk, nested, parent, entry, pure>>

\* git push
NestedPush ==
  /\ Running("push")
  /\ did' = did \cup {"n:push"}
  /\ \/ /\ nested.origin # "none"
        /\ remote' = [remote EXCEPT ![nested.origin] = [has |-> TRUE, tree |-> nested.head]]
        /\ proc' = [proc EXCEPT !.pc = "parentAdd"]
     \/ /\ proc' = Thrown(CmdFailed)
        /\ UNCHANGED remote
  /\ UNCHANGED <<disk, nested, parent, entry, pure>>

\* back in the parent: git add .agp
ParentAdd ==
  /\ Running("parentAdd")
  /\ did' = did \cup {"p:add"}
  /\ IF parent.git
     THEN /\ parent' = [parent EXCEPT !.index = "gitlink", !.indexPtr = nested.head]
          /\ proc' = [proc EXCEPT !.pc = "parentCommit", !.cwd = "parent"]
     ELSE /\ proc' = Thrown(CmdFailed)
          /\ UNCHANGED parent
  /\ UNCHANGED <<disk, nested, remote, entry, pure>>

\* git status --porcelain in the parent, and the commit it may call for
ParentCommit ==
  /\ Running("parentCommit")
  /\ IF parentStatusMentionsAgp(parent)
     THEN /\ did' = did \cup {"p:status", "p:commit"}
          /\ \/ /\ parent' = parentCommit(parent)
                /\ proc' = [proc EXCEPT !.pc = "done", !.cwd = finallyCwd(proc.cwd), !.result = "ok"]
             \/ /\ proc' = Thrown(CmdFailed)
                /\ UNCHANGED parent
     ELSE /\ did' = did \cup {"p:status"}
          /\ proc' = [proc EXCEPT !.pc = "done", !.cwd = finallyCwd(proc.cwd), !.result = "ok"]
          /\ UNCHANGED parent
  /\ UNCHANGED <<disk, nested, remote, entry, pure>>

PushStep == NestedStatus \/ NestedAdd \/ NestedCommit \/ NestedPush \/ ParentAdd \/ ParentCommit

-----------------------------------------------------------------------------
(* linkAgpRepository.  Git run inside .agp works on the nested repository   *)
(* when there is one and on the parent's repository otherwise.               *)

LinkThrown(cause) == [proc EXCEPT !.pc = "done", !.cwd = finallyCwd(proc.cwd),
                                  !.result = ErrLink \o cause]

\* lines 7-17
LinkInvoke(url, force) ==
  /\ CanInvoke
  /\ entry' = Snapshot
  /\ did' = {}
  /\ LET p0 == [Invoke("link") EXCEPT !.repositoryUrl = url, !.force = force] IN
       IF ~disk.agp THEN proc' = [p0 EXCEPT !.pc = "done", !.result = ErrNoAgp]
       ELSE proc' = [p0 EXCEPT !.pc = "status", !.cwd = "agp"]
  /\ UNCHANGED <<disk, nested, parent, remote, pure>>

\* variant: --force is not looked at
linkRefusesForced(force, dirty) == dirty

\* line 21
linkRefuses(force, dirty) == dirty /\ ~force

\* lines 19-23
LinkStatus ==
  /\ At("link", "status")
  /\ did' = did \cup {"n:status"}
  /\ IF ~nested.repo /\ ~parent.git THEN proc' = LinkThrown(CmdFailed)
     ELSE IF linkRefuses(proc.force, IF nested.repo THEN statusFiles(nested, disk.wt) # {}
                                     ELSE parentCanCommit(parent) \/ disk.wt # NoNodes)
     THEN proc' = LinkThrown(ErrUncommitted)
     ELSE proc' = [proc EXCEPT !.pc = "remote"]
  /\ UNCHANGED <<disk, nested, parent, remote, entry, pure>>

\* lines 25-33: the old origin is dropped if there is one, the new one is set
LinkRemote ==
  /\ At("link", "remote")
  /\ did' = did \cup {"n:remote remove", "n:remote add"}
  /\ IF nested.repo
     THEN /\ nested' = [nested EXCEPT !.origin = proc.repositoryUrl]
          /\ UNCHANGED parent
     ELSE /\ parent' = [parent EXCEPT !.origin = proc.repositoryUrl]
          /\ UNCHANGED nested
  /\ proc' = [proc EXCEPT !.pc = "push"]
  /\ UNCHANGED <<disk, remote, entry, pure>>

\* what a push from here sends
hereHead == IF nested.repo THEN nested.head ELSE NoTree

\* a push is accepted by an empty remote and by one that holds nothing else
pushAccepted(r, t) == {f \in Files : r.has /\ r.tree[f] \notin {"none", t[f]}} = {}

\* lines 35-38
LinkPush ==
  /\ At("link", "push")
  /\ did' = did \cup {"n:push"}
  /\ \/ /\ IF nested.repo THEN nested.commits ELSE TRUE
        /\ pushAccepted(remote[proc.repositoryUrl], hereHead)
        /\ remote' = [remote EXCEPT ![proc.repositoryUrl] = [has |-> TRUE, tree |-> hereHead]]
        /\ proc' = [proc EXCEPT !.pc = "gitmodules"]
     \/ /\ proc' = [proc EXCEPT !.pc = "pull"]
        /\ UNCHANGED remote
  /\ UNCHANGED <<disk, nested, parent, entry, pure>>

\* line 41
LinkPull ==
  /\ At("link", "pull")
  /\ did' = did \cup {"n:pull"}
  /\ \/ /\ nested.repo /\ remote[proc.repositoryUrl].has
        /\ canMerge(nested.head, remote[proc.repositoryUrl].tree)
        /\ LET m == mergeTrees(nested.head, remote[proc.repositoryUrl].tree) IN
             /\ nested' = [nested EXCEPT !.head = m, !.index = m, !.commits = TRUE]
             /\ disk' = [disk EXCEPT !.wt = [n \in Nodes |-> IF Checkout(m)[n] # "none"
                                                             THEN Checkout(m)[n] ELSE disk.wt[n]]]
        /\ proc' = [proc EXCEPT !.pc = "push2"]
     \/ /\ proc' = LinkThrown(ErrSyncNew \o CmdFailed)
        /\ UNCHANGED <<disk, nested>>
  /\ UNCHANGED <<parent, remote, entry, pure>>

\* line 42
LinkPushAgain ==
  /\ At("link", "push2")
  /\ did' = did \cup {"n:push"}
  /\ \/ /\ remote' = [remote EXCEPT ![proc.repositoryUrl] = [has |-> TRUE, tree |-> nested.head]]
        /\ proc' = [proc EXCEPT !.pc = "gitmodules"]
     \/ /\ proc' = LinkThrown(ErrSyncNew \o CmdFailed)
        /\ UNCHANGED remote
  /\ UNCHANGED <<disk, nested, parent, entry, pure>>

\* gitmodules.replace(/url = .+/g, ...): the URL of every entry is replaced
replaceUrls(gm, url) == [i \in 1..Len(gm) |-> [gm[i] EXCEPT !.url = url]]

\* lines 48-60
LinkGitmodules ==
  /\ At("link", "gitmodules")
  /\ IF parent.gitmodules # <<>>
     THEN /\ did' = did \cup {"write", "p:add", "p:commit"}
          /\ \/ /\ parentCanCommit([parent EXCEPT !.gitmodules = replaceUrls(parent.gitmodules, proc.repositoryUrl)])
                /\ parent' = parentCommit([parent EXCEPT !.gitmodules = replaceUrls(parent.gitmodules, proc.repositoryUrl)])
                /\ proc' = [proc EXCEPT !.pc = "done", !.cwd = finallyCwd(proc.cwd), !.result = "ok"]
             \/ /\ parent' = [parent EXCEPT !.gitmodules = replaceUrls(parent.gitmodules, proc.repositoryUrl)]
                /\ proc' = LinkThrown(CmdFailed)
     ELSE /\ proc' = [proc EXCEPT !.pc = "done", !.cwd = finallyCwd(proc.cwd), !.result = "ok"]
          /\ UNCHANGED <<parent, did>>
  /\ UNCHANGED <<disk, nested, remote, entry, pure>>

LinkStep == LinkStatus \/ LinkRemote \/ LinkPush \/ LinkPull \/ LinkPushAgain \/ LinkGitmodules

-----------------------------------------------------------------------------
(* startAgpSession *)

\* what can be typed at the name prompt
Answers == {"", "  ", "alice", " alice "}

\* String.trim on the strings that occur as names
trim(str) ==
  CASE str = "  " -> ""
    [] str = " alice " -> "alice"
    [] OTHER -> str

sessionDir(userName) == "sessions/" \o userName

sessionFile(userName) == sessionDir(userName) \o "/index.md"

currentSession(userName) == ".agp/sessions/" \o userName \o "/index.md"

\* variant: the stored user is ignored and the prompt always shown
needsPromptAlways(user) == TRUE

\* line 42
needsPrompt(user) == user = "" \/ trim(user) = ""

\* lines 16-42: the checks and the choice between the stored user and the prompt
StartEnter ==
  /\ CanInvoke
  /\ entry' = Snapshot
  /\ did' = {}
  /\ LET p0 == Invoke("start") IN
       IF ~disk.agp THEN proc' = [p0 EXCEPT !.pc = "done", !.result = ErrNotInit]
       ELSE IF disk.wt[".config.json"] = "none"
       THEN proc' = [p0 EXCEPT !.pc = "done", !.result = ErrNoConfig]
       ELSE IF ~canParse(disk.config)
       THEN proc' = [p0 EXCEPT !.pc = "done", !.result = ErrReadConfig]
       ELSE IF needsPrompt(disk.config.user)
       THEN proc' = [p0 EXCEPT !.pc = "prompt"]
       ELSE proc' = [p0 EXCEPT !.pc = "session", !.userName = disk.config.user]
  /\ UNCHANGED <<disk, nested, parent, remote, pure>>

\* lines 43-59
StartPrompt(answer) ==
  /\ At("start", "prompt")
  /\ did' = did \cup {"prompt name"}
  /\ IF trim(answer) = ""
     THEN proc' = [proc EXCEPT !.pc = "done", !.result = ErrNameRequired, !.answer = answer]
     ELSE proc' = [proc EXCEPT !.pc = "session", !.userName = trim(answer), !.answer = answer]
  /\ UNCHANGED <<disk, nested, parent, remote, entry, pure>>

\* variant: the session template is written whether or not the file exists
sessionContentRewritten(wt, userName) == "session"

\* lines 68-74: the template for a new user, the file as it is otherwise
sessionContent(wt, userName) ==
  IF ~pathExists(wt, sessionFile(userName)) THEN "session" ELSE wt[sessionFile(userName)]

\* lines 77-78
sessionConfig(config, userName) ==
  [config EXCEPT !.user = userName, !.current = currentSession(userName)]

\* lines 63-80
StartSession ==
  /\ At("start", "session")
  /\ did' = did \cup {"write"}
  /\ disk' = [disk EXCEPT
                !.wt = writeFile(ensureDir(disk.wt, sessionDir(proc.userName)),
                                 sessionFile(proc.userName),
                                 sessionContent(disk.wt, proc.userName)),
                !.config = sessionConfig(disk.config, proc.userName)]
  /\ proc' = [proc EXCEPT !.pc = "done", !.result = "ok"]
  /\ UNCHANGED <<nested, parent, remote, entry, pure>>

StartStep == (\E answer \in Answers : StartPrompt(answer)) \/ StartSession

-----------------------------------------------------------------------------
(* connect: the command's check of the tool name, then connectToAiTool with  *)
(* the default configuration path .agp/config                                *)

supportedTools == <<"claude", "cursor", "chatgpt">>

\* what can be given as <tool>
ToolArgs == {"claude", "Cursor", "chatgpt", "copilot"}

\* String.toLowerCase on the tool names that occur
toLowerCase(str) == IF str = "Cursor" THEN "cursor" ELSE str

\* variant: every name is let through to connectToAiTool
isSupportedAny(tool) == TRUE

\* connect.ts line 13
isSupported(tool) == \E i \in 1..Len(supportedTools) : supportedTools[i] = toLowerCase(tool)

\* connect.ts lines 10-22, agp-connect.ts lines 7-13
ConnectEnter(tool) ==
  /\ CanInvoke
  /\ entry' = Snapshot
  /\ did' = {}
  /\ LET p0 == [Invoke("connect") EXCEPT !.tool = tool] IN
       IF ~isSupported(tool)
       THEN proc' = [p0 EXCEPT !.pc = "done",
                       !.result = ErrUnsupported \o tool \o ". Supported tools: "
                                    \o join(supportedTools, ", ")]
       ELSE IF ~disk.agp THEN proc' = [p0 EXCEPT !.pc = "done", !.result = ErrNoAgp]
       ELSE proc' = [p0 EXCEPT !.pc = "setup"]
  /\ UNCHANGED <<disk, nested, parent, remote, pure>>

\* agp-connect.ts lines 15-30 and the setup function of the tool
ConnectSetup ==
  /\ At("connect", "setup")
  /\ did' = did \cup {"write"}
  /\ CASE toLowerCase(proc.tool) = "claude" ->
            IF pathExists(disk.wt, "instructions.md")
            THEN /\ disk' = [disk EXCEPT !.wt = ensureDir(disk.wt, "config")]
                 /\ parent' = [parent EXCEPT !.claudeMd = "agp"]
                 /\ proc' = [proc EXCEPT !.pc = "done", !.result = "ok"]
            ELSE /\ disk' = [disk EXCEPT !.wt = ensureDir(disk.wt, "config")]
                 /\ proc' = [proc EXCEPT !.pc = "done", !.result = ErrNoInstructions]
                 /\ UNCHANGED parent
       [] toLowerCase(proc.tool) = "cursor" ->
            /\ disk' = [disk EXCEPT !.wt = writeFile(ensureDir(disk.wt, "config"),
                                                     "config/cursor.json", "gen")]
            /\ proc' = [proc EXCEPT !.pc = "done", !.result = "ok"]
            /\ UNCHANGED parent
       [] toLowerCase(proc.tool) = "chatgpt" ->
            /\ disk' = [disk EXCEPT !.wt = writeFile(ensureDir(disk.wt, "config"),
                                                     "config/chatgpt-instructions.md", "gen")]
            /\ proc' = [proc EXCEPT !.pc = "done", !.result = "ok"]
            /\ UNCHANGED parent
       [] OTHER ->
            /\ disk' = [disk EXCEPT !.wt = ensureDir(disk.wt, "config")]
            /\ proc' = [proc EXCEPT !.pc = "done", !.result = ErrUnsupported \o proc.tool]
            /\ UNCHANGED parent
  /\ UNCHANGED <<nested, remote, entry, pure>>

-----------------------------------------------------------------------------
(* The user, or an assistant, edits a knowledge file between two commands *)

EditFiles == {"notes.md", "architecture/overview.md"}

Edit(f) ==
  /\ proc.op = "idle" /\ proc.ops < MaxOps
  /\ disk.agp /\ canWrite(disk.wt, f) /\ disk.wt[f] # "edit"
  /\ disk' = [disk EXCEPT !.wt = writeFile(disk.wt, f, "edit")]
  /\ UNCHANGED <<nested, parent, remote, proc, did, entry, pure>>

-----------------------------------------------------------------------------
InitStep ==
  \/ PullSubmoduleInit \/ PullSubmoduleUpdate \/ PullValidate
  \/ InitSetup \/ LinkEnter \/ LoopHead
  \/ \E u \in TypedUrls : PromptUrl(u)
  \/ EnterAgp \/ GitInit \/ GitAdd \/ GitCommit \/ GitRemoteAdd \/ GitPush
  \/ \E a \in {"cancel", "overwrite", "merge"} : PromptAction(a)
  \/ Cancel \/ OverwritePull \/ OverwritePush \/ OverwriteForce
  \/ MergeRemove \/ MergeClone \/ MergeTemplate \/ MergeAdd \/ MergeCommit \/ MergePush
  \/ RmCached \/ SubmoduleAdd \/ CatchChdir \/ Catch \/ Finalize

PushMessages == {"", "docs: by hand"}

Next ==
  \/ \E force \in BOOLEAN, tmpl \in Templates : InitEnter(force, tmpl)
  \/ InitStep
  \/ Sigint
  \/ \E m \in PushMessages : PushEnter("push", m)
  \/ PushEnter("sync", "Update AGP knowledge")
  \/ PushStep
  \/ \E u \in Urls, force \in BOOLEAN : LinkInvoke(u, force)
  \/ LinkStep
  \/ StartEnter
  \/ StartStep
  \/ \E tool \in ToolArgs : ConnectEnter(tool)
  \/ ConnectSetup
  \/ \E f \in EditFiles : Edit(f)
  \/ Exit

Spec == Init /\ [][Next]_vars


-----------------------------------------------------------------------------
(* generateCommitMessage on its own: every list of up to MaxLines status    *)
(* lines, with and without a message given by the caller                     *)

LineUniverse ==
  { <<"M", " ", "sessions", "/", "alice", "/", "index.md">>,
    <<"M", " ", "sessions", "/", "project", "/", "index.md">>,
    <<"??", " ", "sessions", "/", "bob", "/">>,
    <<"M", " ", "project", "/", "x.ts.md">>,
    <<"M", " ", "patterns", "/", "overview.md">>,
    <<"A", " ", "architecture", "/", "overview.md">>,
    <<"M", " ", "instructions.md">> }

SessionLines == {l \in LineUniverse : Len(l) >= 4 /\ l[3] = "sessions" /\ l[4] = "/"}

LineLists == UNION {[1..k -> LineUniverse] : k \in 1..MaxLines}

QuietIdle ==
  /\ disk = NoDisk /\ nested = NoRepo /\ parent = FreshParent
  /\ remote = [u \in TypedUrls |-> [has |-> FALSE, tree |-> NoTree]]
  /\ proc = Idle /\ did = {} /\ entry = NoEntry

InitMsg ==
  /\ QuietIdle
  /\ \E ls \in LineLists, m \in PushMessages :
       pure = [kind |-> "msg", lines |-> ls, message |-> m, out |-> "", done |-> FALSE]

\* pushAgpChanges, line 158
ApplyCommitMessage ==
  /\ pure.kind = "msg" /\ ~pure.done
  /\ pure' = [pure EXCEPT !.out = commitMessage(pure.message, pure.lines), !.done = TRUE]
  /\ UNCHANGED <<disk, nested, parent, remote, proc, did, entry>>

SpecMsg == InitMsg /\ [][ApplyCommitMessage]_vars

-----------------------------------------------------------------------------
(* mergeTemplateWithExisting on its own: every target and template built    *)
(* from a few top-level entries, merged up to MaxMerges times                *)

MaxMerges == 2

MergeTargets ==
  { Checkout([f \in Files |-> IF f \in S THEN "old" ELSE "none"]) :
      S \in SUBSET {"instructions.md", "architecture/feature-domains.md", "notes.md",
                    ".gitignore", ".temp-template/keep.md"} }

MergeTemplates ==
  { [f \in Files |-> IF f \in S THEN "tmpl" ELSE "none"] :
      S \in SUBSET {"instructions.md", "architecture/overview.md", "patterns/overview.md", "notes.md"} }

InitMerge ==
  /\ QuietIdle
  /\ \E wt \in MergeTargets, t \in MergeTemplates :
       pure = [kind |-> "merge", start |-> wt, wt |-> wt, once |-> wt, tmpl |-> t, runs |-> 0]

\* one call of mergeTemplateWithExisting whose download succeeds
ApplyMerge ==
  /\ pure.kind = "merge" /\ pure.runs < MaxMerges
  /\ pure' = [pure EXCEPT !.wt = mergeTemplateWithExisting(pure.wt, pure.tmpl),
                          !.once = IF pure.runs = 0 THEN mergeTemplateWithExisting(pure.wt, pure.tmpl)
                                   ELSE pure.once,
                          !.runs = pure.runs + 1]
  /\ UNCHANGED <<disk, nested, parent, remote, proc, did, entry>>

SpecMerge == InitMerge /\ [][ApplyMerge]_vars

-----------------------------------------------------------------------------
(* validateAgpSetup on its own: a complete directory with up to two items   *)
(* taken away, under every state of the parent's submodule registration      *)

CompleteAgp ==
  [n \in Nodes |-> IF n \in Dirs THEN (IF n \in {"sessions/alice", ".temp-template"} THEN "none" ELSE "dir")
                   ELSE IF n \in {"notes.md", ".temp-template/keep.md", "sessions/alice/index.md"} THEN "none"
                   ELSE "gen"]

ChecklistItems == {requiredFiles[i] : i \in 1..Len(requiredFiles)}
                    \cup {requiredDirs[i] : i \in 1..Len(requiredDirs)}

ParentStates ==
  { [FreshParent EXCEPT !.git = g, !.index = ix,
                        !.gitmodules = IF m THEN <<[path |-> ".agp", url |-> UrlEmpty]>> ELSE <<>>] :
      g \in BOOLEAN, ix \in {"none", "files", "gitlink"}, m \in BOOLEAN }

InitValidate ==
  /\ QuietIdle
  /\ \E a \in ChecklistItems, b \in ChecklistItems \cup {""}, c \in BOOLEAN, p \in ParentStates :
       pure = [kind |-> "validate",
               wt |-> IF b = "" THEN (IF c THEN CompleteAgp ELSE removeNode(CompleteAgp, a))
                      ELSE removeNode(removeNode(CompleteAgp, a), b),
               parent |-> p, out |-> "", done |-> FALSE]

\* one call of validateAgpSetup
ApplyValidate ==
  /\ pure.kind = "validate" /\ ~pure.done
  /\ pure' = [pure EXCEPT !.out = validateAgpSetup(pure.wt, pure.parent), !.done = TRUE]
  /\ UNCHANGED <<disk, nested, parent, remote, proc, did, entry>>

SpecValidate == InitValidate /\ [][ApplyValidate]_vars

-----------------------------------------------------------------------------
(* extractZipFile and the part of downloadTemplate that awaits it: every    *)
(* archive of a root directory entry and up to MaxEntries further entries   *)

MaxEntries == 3

\* the root entry is "<repo>-main/", a directory entry ends with "/"
EntryKinds == {"dir", "file"}

Archives == UNION {{<<"root">> \o s : s \in [1..k -> EntryKinds]} : k \in 0..MaxEntries}

InitZip ==
  /\ QuietIdle
  /\ \E a \in Archives :
       pure = [kind |-> "zip", entries |-> a, read |-> 0, waiting |-> TRUE, stage |-> "none",
               pendingEntries |-> 0, completed |-> FALSE, resolves |-> 0, ended |-> FALSE,
               written |-> {}, dl |-> "await", zip |-> TRUE]

\* part_001 lines 162-167
complete(p) ==
  IF ~p.completed /\ p.pendingEntries = 0
  THEN [p EXCEPT !.completed = TRUE, !.resolves = p.resolves + 1]
  ELSE p

\* lines 171-189: the 'entry' event that answers a readEntry()
ZipEntry ==
  /\ pure.kind = "zip" /\ pure.waiting /\ pure.read < Len(pure.entries)
  /\ LET p == [pure EXCEPT !.read = pure.read + 1] IN
       pure' = CASE pure.entries[pure.read + 1] = "root" -> p
                 [] pure.entries[pure.read + 1] = "dir"
                      -> [p EXCEPT !.waiting = FALSE, !.stage = "ensureDir"]
                 [] OTHER -> [p EXCEPT !.waiting = FALSE, !.stage = "openReadStream",
                                       !.pendingEntries = pure.pendingEntries + 1]
  /\ UNCHANGED <<disk, nested, parent, remote, proc, did, entry>>

\* lines 184-186
ZipDirEnsured ==
  /\ pure.kind = "zip" /\ pure.stage = "ensureDir"
  /\ pure' = [pure EXCEPT !.stage = "none", !.waiting = TRUE]
  /\ UNCHANGED <<disk, nested, parent, remote, proc, did, entry>>

\* lines 191-198
ZipStreamOpened ==
  /\ pure.kind = "zip" /\ pure.stage = "openReadStream"
  /\ pure' = [pure EXCEPT !.stage = "ensureParent"]
  /\ UNCHANGED <<disk, nested, parent, remote, proc, did, entry>>

\* lines 198-209
ZipPipe ==
  /\ pure.kind = "zip" /\ pure.stage = "ensureParent"
  /\ pure' = [pure EXCEPT !.stage = "pipe"]
  /\ UNCHANGED <<disk, nested, parent, remote, proc, did, entry>>

\* lines 202-206: the write stream's 'close'
ZipWriteClosed ==
  /\ pure.kind = "zip" /\ pure.stage = "pipe"
  /\ pure' = complete([pure EXCEPT !.written = pure.written \cup {pure.read},
                                   !.pendingEntries = pure.pendingEntries - 1,
                                   !.stage = "none", !.waiting = TRUE])
  /\ UNCHANGED <<disk, nested, parent, remote, proc, did, entry>>

\* line 216: 'end' answers the readEntry() after the last entry
ZipEnd ==
  /\ pure.kind = "zip" /\ pure.waiting /\ pure.read = Len(pure.entries)
  /\ pure' = complete([pure EXCEPT !.waiting = FALSE, !.ended = TRUE])
  /\ UNCHANGED <<disk, nested, parent, remote, proc, did, entry>>

\* downloadTemplate, line 95: the await ends once resolve() was called
DownloadResumes ==
  /\ pure.kind = "zip" /\ pure.dl = "await" /\ pure.resolves > 0
  /\ pure' = [pure EXCEPT !.dl = "remove zip"]
  /\ UNCHANGED <<disk, nested, parent, remote, proc, did, entry>>

\* line 98
DownloadRemovesZip ==
  /\ pure.kind = "zip" /\ pure.dl = "remove zip"
  /\ pure' = [pure EXCEPT !.zip = FALSE, !.dl = "cleanup"]
  /\ UNCHANGED <<disk, nested, parent, remote, proc, did, entry>>

\* lines 100-107, then the return
DownloadReturns ==
  /\ pure.kind = "zip" /\ pure.dl = "cleanup"
  /\ pure' = [pure EXCEPT !.dl = "returned"]
  /\ UNCHANGED <<disk, nested, parent, remote, proc, did, entry>>

NextZip ==
  \/ ZipEntry \/ ZipDirEnsured \/ ZipStreamOpened \/ ZipPipe \/ ZipWriteClosed \/ ZipEnd
  \/ DownloadResumes \/ DownloadRemovesZip \/ DownloadReturns

SpecZip == InitZip /\ [][NextZip]_vars

-----------------------------------------------------------------------------
(* push and sync on a project whose init succeeded: the state Finalize       *)
(* leaves on the direct route, then MaxOps invocations of push or sync with   *)
(* edits in between                                                           *)

LinkedWt ==
  writeFile(setupAdditionalStructure(analyzeProject(ensureDir(Checkout(DefaultTemplate), "project"))),
            ".config.json", "gen")

\* what `git add .` and the initial commit recorded
LinkedTree == gitAddAll(NoTree, LinkedWt)

LinkedDisk == [agp |-> TRUE, wt |-> LinkedWt, config |-> createConfigFile(NoConfig, UrlEmpty)]

LinkedNested ==
  [repo |-> TRUE, commits |-> TRUE, head |-> LinkedTree, index |-> LinkedTree, origin |-> UrlEmpty]

LinkedParent == submoduleAdd(FreshParent, LinkedTree, UrlEmpty)

LinkedRemote ==
  [u \in TypedUrls |-> IF u = UrlEmpty THEN [has |-> TRUE, tree |-> LinkedTree]
                       ELSE [has |-> FALSE, tree |-> NoTree]]

InitLinked ==
  /\ disk = LinkedDisk
  /\ nested = LinkedNested
  /\ parent = LinkedParent
  /\ remote = LinkedRemote
  /\ proc = Idle
  /\ did = {}
  /\ entry = NoEntry
  /\ pure = NoPure

NextLinked ==
  \/ \E m \in PushMessages : PushEnter("push", m)
  \/ PushEnter("sync", "Update AGP knowledge")
  \/ PushStep
  \/ \E f \in EditFiles : Edit(f)
  \/ Exit

SpecLinked == InitLinked /\ [][NextLinked]_vars

-----------------------------------------------------------------------------
(* link on a linked project whose parent has a second submodule             *)

UrlVendor == "https://github.com/vendor/lib.git"

\* .gitmodules with the entry of another submodule ahead of the one of .agp
VendorParent ==
  [LinkedParent EXCEPT !.gitmodules = <<[path |-> "vendor/lib", url |-> UrlVendor]>>
                                        \o LinkedParent.gitmodules]

InitRelink ==
  /\ disk = LinkedDisk
  /\ nested = LinkedNested
  /\ \E committed \in BOOLEAN :
       parent = IF committed THEN parentCommit(VendorParent) ELSE VendorParent
  /\ remote = LinkedRemote
  /\ proc = Idle
  /\ did = {}
  /\ entry = NoEntry
  /\ pure = NoPure

NextRelink ==
  \/ \E u \in Urls, force \in BOOLEAN : LinkInvoke(u, force)
  \/ LinkStep
  \/ \E f \in EditFiles : Edit(f)
  \/ Exit

SpecRelink == InitRelink /\ [][NextRelink]_vars

-----------------------------------------------------------------------------
(* init run again on a linked project in which a session was started, with   *)
(* the default template or a custom one                                       *)

\* a custom template (--template) without the patterns file
PartialTemplate ==
  [f \in Files |-> IF f \in {"instructions.md", "architecture/overview.md"} THEN "tmpl" ELSE "none"]

ReinitTemplates == {DefaultTemplate, PartialTemplate}

\* the linked project after `agp start` for alice
SessionDisk ==
  [LinkedDisk EXCEPT !.wt = writeFile(ensureDir(LinkedWt, sessionDir("alice")),
                                      sessionFile("alice"), "session"),
                     !.config = sessionConfig(LinkedDisk.config, "alice")]

InitReinit ==
  /\ disk = SessionDisk
  /\ nested = LinkedNested
  /\ parent = LinkedParent
  /\ remote = LinkedRemote
  /\ proc = Idle
  /\ did = {}
  /\ entry = NoEntry
  /\ pure = NoPure

NextReinit ==
  \/ \E force \in BOOLEAN, tmpl \in ReinitTemplates : InitEnter(force, tmpl)
  \/ InitStep
  \/ Sigint
  \/ Exit

SpecReinit == InitReinit /\ [][NextReinit]_vars

-----------------------------------------------------------------------------
(* Properties *)

PullTags == {"p:submodule init", "p:submodule update", "p:submodule status"}

ParentTags == {"p:add", "p:status", "p:commit"}

\* the state at entry had a non-hidden entry in .agp
EntryHasVisible == \E n \in TopLevel : entry.disk.wt[n] # "none" /\ ~IsHidden(n)

\* C1: init without --force, run when .agp holds a non-hidden entry, fails with
\* 'AGP directory already exists' and mutates nothing: no file under .agp or in
\* the parent changes, no Git command runs, the working directory is unchanged.
C1_ExistsFailsUntouched ==
  (proc.op = "init" /\ ~proc.force /\ entry.disk.agp /\ EntryHasVisible)
    => /\ proc.pc = "done" /\ proc.result = ErrExists
       /\ Snapshot = entry
       /\ did = {}
       /\ proc.cwd = "parent"

C1_Witness ==
  /\ proc.op = "init" /\ proc.pc = "done" /\ proc.result = ErrExists
  /\ ~proc.force /\ EntryHasVisible

\* C2: a fresh init (a Git repository, no .agp, no --force) whose linkage went
\* through ends successfully with a directory that passes the required-files
\* and required-directories checklist and exactly one .agp entry in .gitmodules,
\* whichever path the linkage took.
C2_FreshInitValidated ==
  (proc.op = "init" /\ proc.pc = "done" /\ ~proc.force /\ ~entry.disk.agp
     /\ entry.parent.git /\ proc.submoduleUrl # "")
    => /\ proc.result = "ok"
       /\ \A i \in 1..Len(requiredFiles) : disk.wt[requiredFiles[i]] # "none"
       /\ \A i \in 1..Len(requiredDirs) : disk.wt[requiredDirs[i]] # "none"
       /\ Cardinality(moduleEntries(parent)) = 1

\* the merge path completed in a fresh init
C2_Witness ==
  /\ proc.op = "init" /\ proc.pc = "done" /\ ~proc.force /\ ~entry.disk.agp
  /\ proc.route = "merge" /\ proc.submoduleUrl # ""

\* C3 as stated: the linkage attempt body is executed at most 3 times in one
\* invocation of initializeSubmodule.
C3_BodyAtMostThree == proc.bodyRuns <= 3

\* C3: at most 3 failed attempts are counted; a cancelled attempt is not counted,
\* so the body runs at most 3 times plus once per cancel; a cancel leaves the
\* empty skeleton, on which the next commit fails, so there is at most one cancel
\* and the body runs at most 4 times.  The loop is left by returning the URL or by
\* throwing 'Failed to initialize submodule after maximum attempts' when the
\* third failure is counted, never by the throw after the loop.
C3_CountedFailuresBounded ==
  /\ proc.retryCount <= 3
  /\ proc.bodyRuns <= 3 + proc.cancels
  /\ proc.cancels <= 1
  /\ proc.bodyRuns <= proc.retryCount + proc.cancels + 1
  /\ proc.result # ErrMultiple
  /\ proc.result = ErrMaxAttempts => proc.retryCount = 3
  /\ (proc.pc = "done" /\ proc.bodyRuns > 0)
       => (proc.submoduleUrl # "" \/ proc.result = ErrMaxAttempts)

\* a cancel followed by three counted failures: four runs of the body
C3_Witness ==
  /\ proc.pc = "done" /\ proc.result = ErrMaxAttempts
  /\ proc.cancels = 1 /\ proc.bodyRuns = 4

\* C4: init, push, sync and link leave the process in the directory it was
\* entered in (the project directory), whether they return or throw.
C4_CwdRestored ==
  (proc.pc = "done" /\ proc.op \in {"init", "push", "sync", "link"}) => proc.cwd = "parent"

\* the linkage gave up after Git commands were run inside .agp
C4_Witness ==
  /\ proc.op = "init" /\ proc.pc = "done" /\ proc.result = ErrMaxAttempts
  /\ "n:commit" \in did

\* C5: init without --force on an .agp whose entries are all hidden (or that is
\* empty) runs only the pull path (submodule init, update, validation) and ends
\* there: no template download, no linkage loop, no prompt, no removal.
C5_HiddenOnlyTakesPullPath ==
  (proc.op = "init" /\ ~proc.force /\ entry.disk.agp /\ ~EntryHasVisible)
    => /\ proc.pc \in {"pullInit", "pullUpdate", "pullValidate", "done"}
       /\ did \subseteq PullTags
       /\ proc.bodyRuns = 0
       /\ disk.agp
       /\ proc.pc = "done" => "p:submodule init" \in did

\* the pull path ran to its validation on a directory that held only .config.json
C5_Witness ==
  /\ proc.op = "init" /\ proc.pc = "done" /\ ~proc.force
  /\ entry.disk.agp /\ entry.disk.wt[".config.json"] # "none" /\ ~EntryHasVisible
  /\ "p:submodule update" \in did

\* C6: push and sync on a nested repository whose status is empty return
\* successfully having run nothing but the status command: no add, commit or
\* push in .agp, no add or commit in the parent, no file written.
C6_CleanIsNoop ==
  (proc.op \in {"push", "sync"} /\ proc.pc = "done" /\ entry.nested.repo
     /\ statusFiles(entry.nested, entry.disk.wt) = {})
    => /\ proc.result = "ok"
       /\ did = {"n:status"}
       /\ Snapshot = entry

C6_Witness ==
  /\ proc.op = "push" /\ proc.pc = "done" /\ proc.result = "ok"
  /\ entry.nested.repo /\ statusFiles(entry.nested, entry.disk.wt) = {}

\* the nested push has brought the remote to the nested HEAD
NestedPushed ==
  IF nested.origin = "none" THEN FALSE
  ELSE remote[nested.origin] = [has |-> TRUE, tree |-> nested.head]

PushOrder ==
  proc.op = "push" =>
    /\ ("n:add" \in did' \ did) => (did = {"n:status"} /\ statusFiles(nested, disk.wt) # {})
    /\ ("n:commit" \in did' \ did) => "n:add" \in did
    /\ ("n:push" \in did' \ did) => ("n:commit" \in did /\ nested.commits /\ nested.head = nested.index)
    /\ (did' \cap ParentTags # did \cap ParentTags)
         => ({"n:add", "n:commit", "n:push"} \subseteq did /\ NestedPushed)
    /\ ("p:commit" \in did' \ did)
         => ("p:add" \in did /\ (parent.index # parent.head \/ parent.indexPtr # parent.headPtr))
    /\ ("p:commit" \in did' /\ proc'.result = "ok")
         => (parent'.index = "gitlink" /\ parent'.head = "gitlink" /\ parent'.headPtr = nested.head)
    /\ (proc.pc \in {"add", "commit", "push"} /\ proc'.pc = "done")
         => /\ proc'.result = ErrPush \o CmdFailed
            /\ did' \cap ParentTags = {}
            /\ parent' = parent

\* C7: when push finds changes, add, commit and push in .agp complete in that
\* order before any command in the parent; the parent stages .agp and commits
\* only when its status mentions .agp; a failing nested step ends push with
\* 'Failed to push AGP changes: <cause>' and no parent command.
C7_NestedBeforeParent == [][PushOrder]_vars

C7_Witness ==
  /\ proc.op = "push" /\ proc.pc = "done" /\ proc.result = "ok"
  /\ {"n:add", "n:commit", "n:push", "p:add", "p:commit"} \subseteq did

\* C8: a change that touches only files under sessions/<user>/ gets the message
\* 'docs: update session progress' when the caller gives none.
C8_SessionOnlyMessage ==
  (pure.kind = "msg" /\ pure.done /\ pure.message = ""
     /\ \A i \in 1..Len(pure.lines) : pure.lines[i] \in SessionLines)
    => pure.out = "docs: update session progress"

\* C9: a merge leaves every target entry that the template does not have as it was.
C9_OtherEntriesUntouched ==
  (pure.kind = "merge" /\ pure.runs > 0)
    => \A n \in Nodes : (pure.start[n] # "none" /\ TopOf(n) \notin templateEntries(pure.tmpl))
                          => pure.wt[n] = pure.start[n]

MissingFiles == {i \in 1..Len(requiredFiles) : pure.wt[requiredFiles[i]] = "none"}

MissingDirs == {i \in 1..Len(requiredDirs) : pure.wt[requiredDirs[i]] = "none"}

Least(S) == CHOOSE i \in S : \A j \in S : i <= j

Registered == pure.parent.git /\ pure.parent.index = "gitlink" /\ HasModuleEntry(pure.parent)

\* C10: validation fails when any item of the checklist (7 files, 4
\* directories, the submodule status of .agp) is missing; the error names the
\* first missing file, else the first missing directory, in checklist order, and
\* a missing or empty submodule status gives the submodule error, which is
\* none of the file or directory errors.
C10_ValidationNamesFirstMissing ==
  /\ Len(requiredFiles) = 7 /\ Len(requiredDirs) = 4
  /\ (pure.kind = "validate" /\ pure.done)
       => /\ pure.out = IF MissingFiles # {} THEN ErrFileMissing \o requiredFiles[Least(MissingFiles)]
                        ELSE IF MissingDirs # {} THEN ErrDirMissing \o requiredDirs[Least(MissingDirs)]
                        ELSE IF ~Registered THEN ErrSubmodule
                        ELSE ""
          /\ (pure.out = "") = (MissingFiles = {} /\ MissingDirs = {} /\ Registered)
          /\ ErrSubmodule \notin {ErrFileMissing \o n : n \in Nodes} \cup {ErrDirMissing \o n : n \in Nodes}

\* two items are missing and the earlier one is named
C10_Witness ==
  /\ pure.kind = "validate" /\ pure.done
  /\ Cardinality(MissingFiles) = 2
  /\ pure.out = ErrFileMissing \o requiredFiles[Least(MissingFiles)]



\* C11: start writes the session template to sessions/<user>/index.md exactly
\* when the file is absent; a session file that exists is only read, so its
\* content after start is what it was before, and it never becomes new again.
C11_SessionNewOrExisting ==
  proc.op = "start" =>
    \A user \in {"alice"} :
      LET f == "sessions/" \o user \o "/index.md"
      IN /\ entry.disk.wt[f] # "none" => disk.wt[f] = entry.disk.wt[f]
         /\ (proc.pc = "done" /\ proc.result = "ok" /\ proc.userName = user
               /\ entry.disk.wt[f] = "none") => disk.wt[f] = "session"
         /\ disk.wt[f] # entry.disk.wt[f] => "write" \in did /\ entry.disk.wt[f] = "none"

\* start resumed a session whose file held something other than the template
C11_Witness ==
  /\ proc.op = "start" /\ proc.pc = "done" /\ proc.result = "ok"
  /\ entry.disk.wt["sessions/alice/index.md"] \notin {"none", "session"}
  /\ "write" \in did

\* C12: a forced re-init that succeeds over a parseable .config.json keeps
\* session.user and session.current of that config, and submodule.repository
\* is the URL this run's linkage returned (the nested repository's origin).
C12_ForcedInitKeepsSession ==
  (proc.op = "init" /\ proc.force /\ proc.pc = "done" /\ proc.result = "ok"
     /\ entry.disk.agp /\ entry.disk.config.kind = "ok")
    => /\ disk.config.kind = "ok"
       /\ disk.config.user = entry.disk.config.user
       /\ disk.config.current = entry.disk.config.current
       /\ disk.config.repository = proc.submoduleUrl
       /\ disk.config.repository = nested.origin
       /\ proc.submoduleUrl # ""

\* a forced re-init succeeded over a config that named a user
C12_Witness ==
  /\ proc.op = "init" /\ proc.force /\ proc.pc = "done" /\ proc.result = "ok"
  /\ entry.disk.agp /\ entry.disk.config.kind = "ok"
  /\ entry.disk.config.user = "alice"

\* the invocation was entered with a precondition of its command unmet
C13_Unmet ==
  \/ proc.op = "init" /\ ~entry.parent.git /\ (proc.force \/ ~entry.disk.agp)
  \/ proc.op \in {"start", "push", "link", "connect"} /\ ~entry.disk.agp
  \/ proc.op = "push" /\ entry.disk.agp /\ ~entry.nested.repo

C13_Message ==
  CASE proc.op = "init" -> {"AGP requires a Git repository. Please run \"git init\" first."}
    [] proc.op = "start" -> {"AGP not initialized. Run \"agp init\" first."}
    [] proc.op = "push" /\ entry.disk.agp
         -> {"AGP directory is not a git repository. Please check your setup."}
    [] proc.op = "connect"
         -> {"AGP directory not found. Run \"agp init\" first.",
             "Unsupported tool: copilot. Supported tools: claude, cursor, chatgpt"}
    [] OTHER -> {"AGP directory not found. Run \"agp init\" first."}

\* C13: a command whose precondition is unmet (init, fresh or forced, outside
\* a Git repository; start, push, link, connect without .agp; push on an .agp
\* that is no Git repository) fails at once with its precondition error: no
\* retry, no prompt, no Git command, no file or repository changed; a forced
\* init outside a Git repository leaves an existing .agp in place.
C13_PreconditionFailsFirst ==
  C13_Unmet
    => /\ proc.pc = "done" /\ proc.result \in C13_Message
       /\ did = {}
       /\ Snapshot = entry
       /\ proc.retryCount = 0 /\ proc.bodyRuns = 0
       /\ proc.cwd = "parent"

\* a forced init outside a Git repository, over an existing .agp
C13_Witness ==
  /\ proc.op = "init" /\ proc.force /\ proc.pc = "done"
  /\ ~entry.parent.git /\ entry.disk.agp /\ disk.agp
  /\ proc.result = ErrNoGit

\* C14: when SIGINT arrives after initializeSubmodule has started, the handler
\* has put the working directory back to the directory the command was entered
\* in by the time the process exits.
C14_SigintRestoresCwd ==
  (proc.op = "init" /\ proc.pc = "interrupted") => proc.cwd = "parent"

\* the interrupt came while the process was inside .agp
C14_Witness ==
  /\ proc.op = "init" /\ proc.pc = "interrupted" /\ proc.result = "SIGINT"
  /\ "sigint in agp" \in did
  /\ proc.cwd = "parent"

\* C15: no failure of a Git command is swallowed, apart from removing a remote
\* that does not exist and committing when there is nothing to commit; in
\* particular a `git push` of the merged content that did not bring the remote
\* to the nested HEAD is followed by the error handling of the attempt.
C15_FailedMergePushIsAnError ==
  [][(proc.op = "init" /\ proc.pc = "mergePush" /\ proc'.pc # "interrupted"
        /\ remote'[nested.origin].tree # nested.head)
       => proc'.pc = "catch"]_vars

\* the linkage returned on the merge route although the remote never received
\* the merge commit
C15_Witness ==
  /\ proc.op = "init" /\ proc.pc = "done" /\ proc.route = "merge"
  /\ proc.submoduleUrl # "" /\ "n:push" \in did
  /\ remote[proc.submoduleUrl].tree # nested.head

\* C16: once the linkage has returned a URL, that URL is the nested
\* repository's origin, the URL of the .agp entry in .gitmodules and, when init
\* is done, submodule.repository of the config; .agp is a Git repository and
\* is registered as a submodule of the parent. This holds on the direct, the
\* overwrite and the merge route.
C16_OneUrlEverywhere ==
  (proc.op = "init" /\ proc.submoduleUrl # "")
    => /\ proc.submoduleUrl = proc.repositoryUrl
       /\ nested.repo /\ nested.origin = proc.submoduleUrl
       /\ HasModuleEntry(parent) /\ registeredUrl(parent) = proc.submoduleUrl
       /\ parent.index = "gitlink"
       /\ proc.pc = "done" => disk.config.kind = "ok" /\ disk.config.repository = proc.submoduleUrl

\* the linkage returned on the overwrite route over a config that held a URL
C16_Witness ==
  /\ proc.op = "init" /\ proc.pc = "done" /\ proc.submoduleUrl # ""
  /\ proc.route = "overwrite" /\ proc.result = "ok"

\* C17: a non-empty submodule.repository that init has written into
\* .config.json matches one of the forms isValidGitUrl accepts, also when the
\* URL was taken over from the previous config on a forced re-init instead of
\* being typed at the prompt.
C17_WrittenUrlIsValid ==
  (proc.op = "init" /\ proc.pc = "done" /\ "write" \in did
     /\ disk.config.kind = "ok" /\ disk.config.repository # "")
    => isValidGitUrl(disk.config.repository)

\* a forced re-init succeeded and wrote a repository value no pattern matches
C17_Witness ==
  /\ proc.op = "init" /\ proc.force /\ proc.pc = "done" /\ proc.result = "ok"
  /\ "prompt url" \notin did
  /\ disk.config.repository = UrlLocal /\ nested.origin = UrlLocal

\* C18: no commit the tool makes in the nested repository contains
\* .config.json, and so no remote receives it, on every route, the merge route
\* over a remote with its own .gitignore included.
C18_ConfigNeverCommitted ==
  /\ nested.repo => nested.head[".config.json"] = "none"
  /\ \A u \in TypedUrls : remote[u].has => remote[u].tree[".config.json"] = "none"

\* after a merge with a remote that has its own .gitignore, push committed and
\* pushed .config.json
C18_Witness ==
  /\ proc.op = "push" /\ proc.pc = "done" /\ proc.result = "ok"
  /\ nested.head[".gitignore"] = "old"
  /\ nested.head[".config.json"] # "none"
  /\ remote[nested.origin].tree[".config.json"] # "none"

\* C19: connect with a tool name that is none of claude, cursor, chatgpt
\* (compared case-insensitively) is rejected with 'Unsupported tool: <name>.
\* Supported tools: claude, cursor, chatgpt' before any work: no directory is
\* created and no file written. A supported name in another case is accepted.
C19_UnsupportedToolRejected ==
  proc.op = "connect" =>
    IF toLowerCase(proc.tool) \in {"claude", "cursor", "chatgpt"}
    THEN proc.result \notin {"Unsupported tool: " \o t \o ". Supported tools: claude, cursor, chatgpt" :
                               t \in ToolArgs}
    ELSE /\ proc.pc = "done"
         /\ proc.result = "Unsupported tool: " \o proc.tool \o ". Supported tools: claude, cursor, chatgpt"
         /\ did = {}
         /\ Snapshot = entry

\* an unsupported tool was named in a project that has .agp
C19_Witness ==
  /\ proc.op = "connect" /\ proc.pc = "done" /\ proc.tool = "copilot"
  /\ entry.disk.agp
  /\ proc.result = "Unsupported tool: copilot. Supported tools: claude, cursor, chatgpt"

\* C20: start asks for a name only when session.user of the config is empty or
\* blank, and resumes as that user otherwise. After a successful start
\* session.user is the name, session.current is
\* '.agp/sessions/<name>/index.md' and the submodule section is unchanged. An
\* empty or blank answer gives 'Name is required' with no session directory
\* created and the config unchanged.
C20_StartPromptsOnlyWithoutUser ==
  (proc.op = "start" /\ entry.disk.agp /\ entry.disk.config.kind = "ok")
    => LET user == entry.disk.config.user
           blank == user \in {"", "  "}
       IN /\ "prompt name" \in did => blank
          /\ (proc.pc = "done" /\ blank) => "prompt name" \in did
          /\ (proc.pc = "done" /\ proc.result = "ok")
               => /\ proc.userName = IF blank THEN (IF proc.answer = " alice " THEN "alice" ELSE proc.answer)
                                     ELSE user
                  /\ proc.userName \notin {"", "  "}
                  /\ disk.config.user = proc.userName
                  /\ disk.config.current = ".agp/sessions/" \o proc.userName \o "/index.md"
                  /\ disk.config.repository = entry.disk.config.repository
                  /\ disk.wt["sessions/" \o proc.userName] = "dir"
          /\ (proc.pc = "done" /\ "prompt name" \in did /\ proc.answer \in {"", "  "})
               => /\ proc.result = "Name is required"
                  /\ Snapshot = entry
          /\ proc.result = "Name is required" => proc.answer \in {"", "  "}

\* the user was asked and answered with blanks only
C20_Witness ==
  /\ proc.op = "start" /\ proc.pc = "done" /\ proc.result = "Name is required"
  /\ "prompt name" \in did /\ proc.answer = "  "
  /\ entry.disk.config.kind = "ok"

\* C21: when the first push of an attempt fails although the remote has no
\* content (a network or authentication failure), the attempt goes to the
\* recovery that counts it as a failure and asks for a URL again.
C21_NetworkFailureIsCounted ==
  [][(proc.op = "init" /\ proc.pc = "push" /\ ~remote[nested.origin].has
        /\ proc'.pc \notin {"rmCached", "interrupted"})
       => proc'.pc = "catch"]_vars

\* the push to an empty remote failed and the user is asked what to do with
\* the remote's content; no failure has been counted
C21_Witness ==
  /\ proc.op = "init" /\ proc.pc = "promptAction" /\ proc.retryCount = 0
  /\ "n:push" \in did
  /\ ~remote[nested.origin].has

C23_StoredUrlFirstAttemptOnly ==
  [][(proc.op = "init" /\ proc.pc = "loop" /\ proc'.pc # "interrupted"
        /\ proc.force /\ entry.disk.config.kind = "ok" /\ entry.disk.config.repository # "")
       => IF proc.retryCount = 0 /\ proc.cancels = 0
          THEN /\ proc'.pc = "chdir"
               /\ proc'.repositoryUrl = entry.disk.config.repository
               /\ "prompt url" \notin did
          ELSE /\ proc.repositoryUrl = ""
               /\ proc'.pc = "promptUrl"]_vars

\* the stored URL failed once and the user is asked for a URL
C23_Witness ==
  /\ proc.op = "init" /\ proc.pc = "promptUrl" /\ proc.retryCount = 1
  /\ proc.force /\ entry.disk.config.repository # ""
  /\ "prompt url" \notin did

\* C24: cancel after a rejected push discards the attempt: with the working
\* directory already the original one, .agp is removed and recreated as the
\* empty skeleton, the URL is cleared, the parent is left as it was (nothing
\* is registered), the retry counter keeps its value, and the next thing the
\* loop does is the URL prompt.
C24_CancelDiscardsUncounted ==
  /\ [][(proc.op = "init" /\ proc.pc = "cancel" /\ proc'.pc # "interrupted")
          => /\ proc.cwd = "parent" /\ proc'.cwd = "parent"
             /\ disk'.agp /\ ~nested'.repo /\ disk'.config.kind = "none"
             /\ \A n \in Nodes : disk'.wt[n] = IF n \in {"architecture", "patterns", "project"}
                                              THEN "dir" ELSE "none"
             /\ proc'.repositoryUrl = ""
             /\ proc'.retryCount = proc.retryCount
             /\ proc'.pc = "loop"
             /\ UNCHANGED <<parent, remote>>
             /\ proc.bodyRuns = 1 => parent = entry.parent]_vars
  /\ [][(proc.op = "init" /\ proc.pc = "loop" /\ proc.cancels > 0 /\ proc.repositoryUrl = ""
           /\ proc'.pc # "interrupted")
          => proc'.pc = "promptUrl"]_vars

\* after a cancel the user is asked for a URL and no failure was counted
C24_Witness ==
  /\ proc.op = "init" /\ proc.pc = "promptUrl" /\ proc.cancels = 1 /\ proc.retryCount = 0
  /\ "prompt action" \in did /\ "rm .agp" \in did
  /\ ~nested.repo /\ parent = entry.parent

\* the remote's files are all in the tree, with the remote's content
C25_Keeps(tree, old) == \A f \in Files : old[f] # "none" => tree[f] = old[f]

\* C25: overwrite first pulls (unrelated histories allowed) and pushes
\* normally; the force push is issued only after that pull or that push
\* failed, and a failing force push sends the attempt to the recovery. When
\* pull and normal push work, the remote keeps what it had and no force push
\* is issued.
C25_OverwritePullsFirst ==
  [][(proc.op = "init" /\ proc'.pc # "interrupted")
       => /\ (proc.pc = "promptAction" /\ proc'.route = "overwrite")
               => proc'.pc = "owPull" /\ UNCHANGED <<disk, nested, remote>>
          /\ proc.pc = "owPull"
               => /\ "n:pull" \in did' /\ "n:push --force" \notin did'
                  /\ UNCHANGED remote
                  /\ \/ /\ proc'.pc = "owPush"
                        /\ C25_Keeps(nested'.head, remote[nested.origin].tree)
                        /\ C25_Keeps(nested'.head, nested.head)
                     \/ /\ proc'.pc = "owForce"
                        /\ UNCHANGED <<nested, disk>>
          /\ proc.pc = "owPush"
               => /\ "n:push --force" \notin did'
                  /\ \/ /\ proc'.pc = "rmCached"
                        /\ remote'[nested.origin].tree = nested.head
                        /\ C25_Keeps(remote'[nested.origin].tree, remote[nested.origin].tree)
                     \/ /\ proc'.pc = "owForce"
                        /\ UNCHANGED remote
          /\ proc.pc = "owForce"
               => /\ "n:push --force" \in did'
                  /\ \/ proc'.pc = "rmCached" /\ remote'[nested.origin].tree = nested.head
                     \/ proc'.pc = "catch" /\ UNCHANGED remote
          /\ "n:push --force" \in did' => proc.pc = "owForce" \/ "n:push --force" \in did]_vars

\* pull and normal push worked: the remote has its old files and the new ones
C25_Witness ==
  /\ proc.op = "init" /\ proc.pc = "rmCached" /\ proc.route = "overwrite"
  /\ "n:push --force" \notin did
  /\ remote[nested.origin].tree["notes.md"] = "old"
  /\ remote[nested.origin].tree["instructions.md"] = "tmpl"

\* C26: a .config.json that cannot be read or parsed counts as 'no prior
\* config' for a forced init, which goes on and writes a config with empty
\* session.user and session.current; for start the same file, like a missing
\* one, is fatal: start fails and creates no session directory or file.
C26_BrokenConfigInitGoesOnStartFails ==
  /\ (proc.op = "init" /\ proc.force /\ entry.parent.git /\ entry.disk.agp
        /\ entry.disk.wt[".config.json"] # "none" /\ entry.disk.config.kind = "bad")
       => /\ proc.existingConfig.kind = "none"
          /\ proc.pc = "done" => proc.result # "Failed to read AGP config. Please run \"agp init\" to reinitialize."
          /\ (proc.pc = "done" /\ proc.submoduleUrl # "")
               => /\ disk.config.kind = "ok"
                  /\ disk.config.user = "" /\ disk.config.current = ""
                  /\ "prompt url" \in did
  /\ (proc.op = "start" /\ entry.disk.agp /\ entry.disk.config.kind # "ok")
       => /\ proc.pc = "done"
          /\ proc.result = IF entry.disk.wt[".config.json"] = "none"
                           THEN "AGP config not found. Run \"agp init\" to reinitialize."
                           ELSE "Failed to read AGP config. Please run \"agp init\" to reinitialize."
          /\ did = {}
          /\ Snapshot = entry

\* start failed on a config that is there but is not JSON
C26_Witness ==
  /\ proc.op = "start" /\ proc.pc = "done" /\ proc.result = ErrReadConfig
  /\ entry.disk.wt[".config.json"] # "none" /\ entry.disk.config.kind = "bad"

\* every entry was read and handled, every file entry completely written
C27_Extracted ==
  /\ pure.read = Len(pure.entries) /\ pure.stage = "none"
  /\ \A i \in 1..Len(pure.entries) : pure.entries[i] = "file" => i \in pure.written

\* C27: the promise of extractZipFile resolves only after every file entry of
\* the archive has been written (no entry unread, no write in flight), it
\* resolves at most once, and downloadTemplate neither deletes the archive nor
\* returns before the extraction has finished.
C27_ResolvesAfterExtraction ==
  pure.kind = "zip"
    => /\ pure.resolves <= 1
       /\ pure.resolves > 0 => C27_Extracted
       /\ (~pure.zip \/ pure.dl = "returned") => C27_Extracted

\* downloadTemplate has deleted the archive and returned while an entry of the
\* archive is still unread
C27_Witness ==
  /\ pure.kind = "zip" /\ pure.dl = "returned" /\ ~pure.zip
  /\ pure.read < Len(pure.entries)
  /\ pure.resolves = 1

\* the parent records url for the .agp submodule, in .gitmodules and in HEAD
C28_Recorded(url) ==
  /\ moduleEntries(parent) # {}
  /\ \A i \in moduleEntries(parent) : parent.gitmodules[i].url = url
  /\ parent.headModules = parent.gitmodules

\* C28: after a successful link to u the nested repository's origin is u and
\* the URL of the .agp submodule in the parent's .gitmodules is u and
\* committed; a link whose first push failed succeeds only after the pull from
\* u merged and the second push went through.
C28_LinkRecordsUrl ==
  (proc.op = "link" /\ proc.pc = "done" /\ proc.result = "ok")
    => /\ nested.repo /\ nested.origin = proc.repositoryUrl
       /\ C28_Recorded(proc.repositoryUrl)
       /\ remote[proc.repositoryUrl].has
       /\ remote[proc.repositoryUrl].tree = nested.head

\* a link that succeeded although .agp holds no repository: the parent's own
\* origin now points at the URL
C28_Witness ==
  /\ proc.op = "link" /\ proc.pc = "done" /\ proc.result = "ok"
  /\ ~nested.repo
  /\ entry.parent.origin # proc.repositoryUrl
  /\ parent.origin = proc.repositoryUrl

\* C29: link without --force on a nested repository with uncommitted changes
\* fails with 'Uncommitted changes in .agp directory' and changes nothing
\* (origin, .gitmodules and the parent's history are as at entry); with
\* --force the same state goes on to set the new origin.
C29_DirtyLinkRefusedUnlessForced ==
  (proc.op = "link" /\ entry.nested.repo
     /\ statusFiles(entry.nested, entry.disk.wt) # {})
    => IF proc.force
       THEN proc.pc \notin {"status", "remote"}
              => /\ "n:remote add" \in did
                 /\ nested.origin = proc.repositoryUrl
                 /\ proc.result # ErrLink \o ErrUncommitted
       ELSE /\ Snapshot = entry
            /\ proc.pc = "done" => proc.result = ErrLink \o ErrUncommitted

\* a link without --force that was refused on a dirty nested repository
C29_Witness ==
  /\ proc.op = "link" /\ proc.pc = "done" /\ ~proc.force
  /\ entry.nested.repo /\ statusFiles(entry.nested, entry.disk.wt) # {}
  /\ proc.result = ErrLink \o ErrUncommitted
  /\ "n:status" \in did

\* a step of init that removes the nested directory
C30_Deletes ==
  /\ proc.op = "init" /\ disk.agp /\ "rm .agp" \in did'
  /\ \/ ~disk'.agp
     \/ nested.repo /\ ~nested'.repo
     \/ proc.pc \in {"cancel", "mergeRemove", "catchClean"}

\* a step of init that answers the URL prompt or the action prompt
C30_Prompts ==
  /\ proc.op = "init" /\ proc.pc \in {"promptUrl", "promptAction"}
  /\ proc'.pc # proc.pc

\* C30: while the submodule is being set up the nested directory is never
\* deleted with the working directory inside it, and the URL prompt and the
\* overwrite/merge/cancel prompt are shown with the working directory being
\* the original one.
C30_DeletesAndPromptsFromProject ==
  [][(C30_Deletes \/ C30_Prompts) => proc.cwd = "parent"]_vars

\* a cancelled attempt: the action prompt was answered, the directory was
\* removed and recreated, and the URL prompt is up again
C30_Witness ==
  /\ proc.op = "init" /\ proc.pc = "promptUrl" /\ proc.cancels > 0
  /\ "prompt action" \in did /\ "rm .agp" \in did
  /\ proc.cwd = "parent" /\ disk.agp /\ ~nested.repo

\* the recovery step of a failed linkage attempt has just run
C31_Recovered ==
  /\ proc.op = "init"
  /\ \/ proc.pc = "loop" /\ proc.retryCount > 0
     \/ proc.pc = "done" /\ proc.result = ErrMaxAttempts

\* C31: a linkage attempt that failed leaves no trace in the parent: after
\* the recovery step the parent has no .gitmodules entry and no index entry
\* for .agp that was not there when init was entered, also when the merge
\* path's `git submodule add` succeeded and the template download failed.
C31_FailedAttemptLeavesNoTrace ==
  C31_Recovered
    => /\ \A i \in moduleEntries(parent) :
            i \in moduleEntries(entry.parent) /\ parent.gitmodules[i] = entry.parent.gitmodules[i]
       /\ parent.index = "gitlink" => entry.parent.index = "gitlink"

\* a recovered merge attempt whose submodule registration is still in the parent
C31_Witness ==
  /\ C31_Recovered /\ proc.route = "merge" /\ "download" \in did
  /\ moduleEntries(entry.parent) = {} /\ entry.parent.index = "none"
  /\ moduleEntries(parent) # {} /\ parent.index = "gitlink"
  /\ ~nested.repo

\* the empty skeleton: three empty directories, no config
C32_Skeleton ==
  [agp |-> TRUE, config |-> NoConfig,
   wt |-> [n \in Nodes |-> IF n \in {"architecture", "patterns", "project"} THEN "dir" ELSE "none"]]

C33_PullPath == proc.op = "init" /\ "p:submodule init" \in did

C34_Pending(s) ==
  /\ s.nested.repo /\ s.nested.origin # "none"
  /\ s.remote[s.nested.origin].tree # s.nested.head

\* C34: a push that committed the nested changes and whose `git push` failed
\* ends with an error; a later push without new edits finds a clean tree and
\* does nothing: the pending commit is not pushed and the parent's submodule
\* pointer is neither staged nor committed.
C34_PendingCommitStaysUnpublished ==
  /\ (proc.op \in {"push", "sync"} /\ proc.pc = "done" /\ "n:push" \in did
        /\ nested.head # entry.nested.head /\ remote = entry.remote)
       => /\ proc.result = errPrefix(proc.op) \o CmdFailed
          /\ parent = entry.parent
  /\ (proc.op \in {"push", "sync"} /\ C34_Pending(entry)
        /\ statusFiles(entry.nested, entry.disk.wt) = {})
       => /\ Snapshot = entry
          /\ did \subseteq {"n:status"}
          /\ proc.pc = "done" => proc.result = "ok" /\ proc.route = "noop"

\* the second push: a no-op although the commit of the first is not on the remote
C34_Witness ==
  /\ proc.op = "push" /\ proc.ops = 2 /\ proc.pc = "done" /\ proc.route = "noop"
  /\ C34_Pending(entry) /\ C34_Pending(Snapshot)
  /\ nested.head # LinkedTree
  /\ parent.indexPtr # nested.head

\* in snapshot s the config, the nested origin and .gitmodules name one URL
C35_InStep(s) ==
  /\ s.nested.repo /\ s.disk.config.kind = "ok"
  /\ s.disk.config.repository = s.nested.origin
  /\ moduleEntries(s.parent) # {}
  /\ \A i \in moduleEntries(s.parent) : s.parent.gitmodules[i].url = s.nested.origin

\* C35: after successful init and link operations the repository URL in
\* .config.json equals the URL of the nested repository's origin and the URL
\* registered for the .agp submodule in the parent: init establishes this and
\* a successful link keeps it.
C35_ConfigFollowsLink ==
  /\ (proc.op = "init" /\ proc.pc = "done" /\ proc.result = "ok" /\ proc.submoduleUrl # "")
       => C35_InStep(Snapshot)
  /\ (proc.op = "link" /\ proc.pc = "done" /\ proc.result = "ok" /\ C35_InStep(entry))
       => C35_InStep(Snapshot)

\* a successful link after a successful init: origin and .gitmodules name the
\* new URL, .config.json still the old one
C35_Witness ==
  /\ proc.op = "link" /\ proc.pc = "done" /\ proc.result = "ok" /\ C35_InStep(entry)
  /\ nested.origin = proc.repositoryUrl
  /\ \A i \in moduleEntries(parent) : parent.gitmodules[i].url = proc.repositoryUrl
  /\ disk.config.repository = entry.nested.origin
  /\ disk.config.repository # proc.repositoryUrl

\* C36: link changes only the URL of the .agp submodule in the parent's
\* .gitmodules: the entry of every other submodule is the same before and
\* after link.
C36_OtherSubmodulesKeepUrl ==
  proc.op = "link"
    => /\ Len(parent.gitmodules) = Len(entry.parent.gitmodules)
       /\ \A i \in 1..Len(parent.gitmodules) :
            entry.parent.gitmodules[i].path # ".agp"
              => parent.gitmodules[i] = entry.parent.gitmodules[i]

\* a successful link after which the other submodule points at the URL given
\* to link
C36_Witness ==
  /\ proc.op = "link" /\ proc.pc = "done" /\ proc.result = "ok"
  /\ \E i \in 1..Len(parent.gitmodules) :
       /\ parent.gitmodules[i].path = "vendor/lib"
       /\ entry.parent.gitmodules[i].url = UrlVendor
       /\ parent.gitmodules[i].url = proc.repositoryUrl
  /\ parent.headModules = parent.gitmodules

\* the file the config of snapshot s names as current session exists in s
C37_CurrentExists(s) ==
  \E f \in Files : s.disk.config.current = ".agp/" \o f /\ s.disk.wt[f] # "none"

\* C37: when config.session.current is non-empty the session file it names
\* exists on disk: after every successful start, and after a successful
\* forced init that was entered with the file in place and took the session
\* section over from the old config.
C37_CurrentSessionFileExists ==
  (proc.pc = "done" /\ proc.result = "ok" /\ disk.agp /\ disk.config.kind = "ok"
     /\ disk.config.current # ""
     /\ \/ proc.op = "start"
        \/ proc.op = "init" /\ proc.force /\ entry.disk.config.kind = "ok"
             /\ C37_CurrentExists(entry))
    => C37_CurrentExists(Snapshot)

\* a successful forced init after a start: the config still names the session
\* file of the user, the fresh directory has no such file
C37_Witness ==
  /\ proc.op = "init" /\ proc.force /\ proc.pc = "done" /\ proc.result = "ok"
  /\ entry.disk.config.kind = "ok" /\ C37_CurrentExists(entry)
  /\ disk.config.current = entry.disk.config.current
  /\ disk.config.current = currentSession("alice")
  /\ entry.disk.wt[sessionFile("alice")] = "session"
  /\ disk.wt[sessionFile("alice")] = "none"

\* a forced init, entered with a readable config, got past the removal of the
\* directory and failed
C38_Failed ==
  /\ proc.op = "init" /\ proc.force /\ proc.pc = "done" /\ proc.result # "ok"
  /\ "download" \in did /\ entry.disk.agp /\ entry.disk.config.kind = "ok"

\* what the user had written (session files, edits) is not back
C38_ContentLost ==
  \A f \in Files \ {".config.json"} :
    entry.disk.wt[f] \in {"session", "edit"} => disk.wt[f] # entry.disk.wt[f]

====
